---- MODULE Spec2Model ----
(***************************************************************************)
(* LeaksPanel: the image crop / resize / upload modal (ImageUploadModal)   *)
(* and the part of the Editor that hosts it.                               *)
(*                                                                         *)
(* Display coordinates are JavaScript numbers.  They are modelled exactly, *)
(* as integers counting 1/Unit of a display pixel: with a ViewBox that is  *)
(* a whole number of pixels on each axis, every value the code computes    *)
(* (0.9 * width, (width - cropWidth) / 2, sums with whole-pixel pointer    *)
(* deltas) is a whole number of units.  ViewBox.scale is kept as the       *)
(* rational it is (natural pixels per display pixel), and Math.round is    *)
(* applied to exact quotients.                                             *)
(*                                                                         *)
(* Of the image flow the model covers one modal instance showing one      *)
(* image: from the paste that mounts it, through its dismissal, until the  *)
(* work it started has settled.  A further paste while the modal is shown, *)
(* which would hand the mounted instance another imageFile, is not part of *)
(* the model.                                                              *)
(*                                                                         *)
(* Of the site the model covers a session that starts logged in, either   *)
(* in the Editor on a new post (Init) or on a Dashboard whose first        *)
(* listing is in flight (InitFetch): the post list, the two views, saving  *)
(* and deleting posts, the host's files with their revisions (sha), the    *)
(* drafts kept in local storage, logging out and in, and the command       *)
(* palette.  A post is its path, file name, sha, date and title; text is a *)
(* sequence of characters.                                                 *)
(*                                                                         *)
(* The handlers are checked under several specifications, each the program *)
(* with a different part of its input exercised: Spec (every asynchronous  *)
(* path of the modal, coarse pointer input), SpecCrop (the drag geometry), *)
(* SpecResize (the output size fields and the render step), SpecUpload     *)
(* (the required fields, the upload target and the emission to the host),  *)
(* SpecAspect (drags followed by output size entries), SpecSource (drags   *)
(* followed by the render), SpecPublish (posts saved, listed, edited and   *)
(* deleted), SpecDraft (the autosaved draft), SpecFetch (every answer to   *)
(* the listing of posts), SpecDelete (deletes in flight together),         *)
(* SpecLogout (logging out with requests in flight), SpecWrites (saves     *)
(* from the buttons and from the palette), SpecPalette (the palette's keys *)
(* and search) and SpecInsert (typing while an image is uploaded).         *)
(***************************************************************************)
EXTENDS Integers, Sequences, FiniteSets, TLC

(***************************************************************************)
(* Bounds of the model and program constants                               *)
(***************************************************************************)
\* units per display pixel: 0.9 = 9/10 and the halving of the margin
Unit == 10 * 2
\* the floor of the crop's width and height, in display pixels
MinSize == 20
\* pointer deltas are multiples of DeltaStep pixels, up to MaxSteps steps
DeltaStep == MinSize
MaxSteps == 1
\* drag gestures started per modal
MaxGestures == 2
\* encodes and host writes in flight at once
MaxInFlight == 2
\* revisions the host hands out
MaxSha == 3
\* Editor and Dashboard instances mounted in a session
MaxVisits == 2
\* requests for posts in flight at a time
MaxRequests == 1

Px(n) == n * Unit

\* the preview container's client area, in pixels
Container == [clientWidth |-> 60, clientHeight |-> 40]

\* natural sizes of the images that can be pasted
Images == { [naturalWidth |-> 1000, naturalHeight |-> 800],
            [naturalWidth |-> 200,  naturalHeight |-> 100],
            [naturalWidth |-> 40,   naturalHeight |-> 80],
            [naturalWidth |-> 600,  naturalHeight |-> 100] }

Deltas == { k * DeltaStep : k \in (0 - MaxSteps)..MaxSteps }

Handles == {"move", "n", "s", "e", "w", "ne", "nw", "se", "sw"}

\* the pointer input of the specification that runs every handler
FlowImages == { [naturalWidth |-> 200, naturalHeight |-> 100] }
FlowHandles == {"move", "nw"}
FlowDeltas == {DeltaStep}

\* the images of the specification of the output size: scaled to source
\* pixels their crops are not whole numbers
OutputImages == { [naturalWidth |-> 15,  naturalHeight |-> 6],
                 [naturalWidth |-> 15,  naturalHeight |-> 60],
                 [naturalWidth |-> 200, naturalHeight |-> 100] }

NoImage == [naturalWidth |-> 0, naturalHeight |-> 0]
NoDrag == [type |-> "none"]

(***************************************************************************)
(* Arithmetic helpers                                                      *)
(***************************************************************************)
Max(a, b) == IF a > b THEN a ELSE b
Min(a, b) == IF a < b THEN a ELSE b

\* Math.round of the quotient a / b (b > 0): the nearest integer, halves up
RoundDiv(a, b) == (2 * a + b) \div (2 * b)

\* type.includes(c) for the handle identifiers
Includes(type, c) ==
    CASE type = "move" -> c \in {"m", "o", "v", "e"}
      [] type = "n"    -> c = "n"
      [] type = "s"    -> c = "s"
      [] type = "e"    -> c = "e"
      [] type = "w"    -> c = "w"
      [] type = "ne"   -> c \in {"n", "e"}
      [] type = "nw"   -> c \in {"n", "w"}
      [] type = "se"   -> c \in {"s", "e"}
      [] type = "sw"   -> c \in {"s", "w"}
      [] OTHER         -> FALSE

(***************************************************************************)
(* Text: strings the code parses or builds digit by digit are sequences of *)
(* one-character strings                                                   *)
(***************************************************************************)
Digits == <<"0", "1", "2", "3", "4", "5", "6", "7", "8", "9">>

IsDigit(c) == \E d \in 1..10 : Digits[d] = c
DigitVal(c) == (CHOOSE d \in 1..10 : Digits[d] = c) - 1

\* String(n) for an integer n
RECURSIVE NatToStr(_)
NatToStr(n) == IF n < 10 THEN <<Digits[n + 1]>>
               ELSE NatToStr(n \div 10) \o <<Digits[(n % 10) + 1]>>
ToStr(n) == IF n < 0 THEN <<"-">> \o NatToStr(0 - n) ELSE NatToStr(n)

\* parseInt(s, 10): leading blanks, an optional sign, then the longest run of
\* digits; NaN when there is no digit there
RECURSIVE SkipBlanks(_)
SkipBlanks(s) == IF s # <<>> /\ Head(s) = " " THEN SkipBlanks(Tail(s)) ELSE s

RECURSIVE DigitRun(_, _)
DigitRun(s, acc) == IF s # <<>> /\ IsDigit(Head(s))
                    THEN DigitRun(Tail(s), acc * 10 + DigitVal(Head(s)))
                    ELSE acc

ParseInt(s) ==
    LET t    == SkipBlanks(s)
        neg  == t # <<>> /\ Head(t) = "-"
        body == IF t # <<>> /\ Head(t) \in {"-", "+"} THEN Tail(t) ELSE t
    IN  IF body = <<>> \/ ~IsDigit(Head(body))
        THEN [nan |-> TRUE, val |-> 0]
        ELSE [nan |-> FALSE, val |-> IF neg THEN 0 - DigitRun(body, 0) ELSE DigitRun(body, 0)]

\* a || b for a parsed number a: b when a is NaN or 0
OrElse(a, b) == IF a.nan \/ a.val = 0 THEN b ELSE a.val

(***************************************************************************)
(* Posts: titles are sequences of characters, file names and paths strings *)
(***************************************************************************)
\* formState.date as a day number, and its yyyy-MM-dd text
Dates == {1, 2}
Today == 2
DateText(d) == IF d = 1 THEN "2026-01-01" ELSE "2026-01-02"

\* what can be typed into the title field
Titles == { <<>>, <<"A">>, <<"a", " ", "!">> }

\* slugify, for the characters of Titles: lower case, runs of blanks to a
\* dash, everything but word characters and dashes dropped, runs of dashes
\* squeezed, leading and trailing dashes trimmed
UpperLetters == <<"A", "C", "D", "G", "L", "N", "O", "P", "S">>
LowerLetters == <<"a", "c", "d", "g", "l", "n", "o", "p", "s">>
LowerChar(c) == IF \E k \in 1..Len(UpperLetters) : UpperLetters[k] = c
                THEN LowerLetters[CHOOSE k \in 1..Len(UpperLetters) : UpperLetters[k] = c]
                ELSE c
LowerCase(text) == [i \in 1..Len(text) |-> LowerChar(text[i])]
\* text.includes(part)
IncludesText(text, part) ==
    \E i \in 0..(Len(text) - Len(part)) : SubSeq(text, i + 1, i + Len(part)) = part

RECURSIVE BlanksToDash(_)
BlanksToDash(text) ==
    IF text = <<>> THEN <<>>
    ELSE IF Head(text) = " " THEN <<"-">> \o BlanksToDash(SkipBlanks(text))
    ELSE <<Head(text)>> \o BlanksToDash(Tail(text))

IsWordOrDash(c) == c \in {"a", "A", "_", "-"} \/ IsDigit(c)

RECURSIVE SqueezeDashes(_)
SqueezeDashes(text) ==
    IF Len(text) < 2 THEN text
    ELSE IF text[1] = "-" /\ text[2] = "-" THEN SqueezeDashes(Tail(text))
    ELSE <<text[1]>> \o SqueezeDashes(Tail(text))

RECURSIVE TrimLeadingDashes(_)
TrimLeadingDashes(text) ==
    IF text # <<>> /\ Head(text) = "-" THEN TrimLeadingDashes(Tail(text)) ELSE text

RECURSIVE TrimTrailingDashes(_)
TrimTrailingDashes(text) ==
    IF text # <<>> /\ text[Len(text)] = "-"
    THEN TrimTrailingDashes(SubSeq(text, 1, Len(text) - 1))
    ELSE text

Slugify(text) ==
    TrimTrailingDashes(TrimLeadingDashes(SqueezeDashes(
        SelectSeq(BlanksToDash(LowerCase(text)), IsWordOrDash))))

\* the characters of a text as one string
RECURSIVE Concat(_)
Concat(text) == IF text = <<>> THEN "" ELSE Head(text) \o Concat(Tail(text))

\* `${format(effectiveDate, 'yyyy-MM-dd')}-${slugify(title)}.md` and its path
FileNameOf(d, t) == DateText(d) \o "-" \o Concat(Slugify(t)) \o ".md"
PathOf(name) == "_posts/" \o name

\* a Post: its path, file name, revision (0: undefined), date and title
NoPost == [path |-> ""]
NoFile == [sha |-> 0, date |-> 0, title |-> <<>>, parses |-> TRUE]
\* front matter without a date, and with one that new Date() cannot read
MissingDate == 0
InvalidDate == 0 - 1
\* new Date(date).getTime(), with 0 for a missing or invalid date
DateKey(d) == IF d \in Dates THEN d ELSE 0
\* no draft stored under a key
NoDraft == [title |-> <<>>, date |-> 0, content |-> <<>>]
\* the local storage key of a post's draft
DraftKey(post) == IF post = NoPost THEN "new" ELSE post.path
\* getInitialState: the form an Editor starts from
InitialState(post) ==
    IF post = NoPost THEN [title |-> <<>>, date |-> Today, content |-> <<>>]
    ELSE [title |-> post.title, date |-> post.date, content |-> <<"text">>]

\* the _posts directory in the order the host lists it
HostNames == << FileNameOf(1, <<"A">>), FileNameOf(2, <<"A">>) >>
Paths == { PathOf(HostNames[i]) : i \in 1..Len(HostNames) }

\* the post the repository holds when the session starts
FirstPost == [path |-> PathOf(HostNames[1]), fileName |-> HostNames[1], sha |-> 1,
              date |-> 1, title |-> <<"A">>]

\* Array.prototype.sort by date, latest first; the sort is stable
RECURSIVE InsertByDate(_, _)
InsertByDate(p, sorted) ==
    IF sorted = <<>> \/ Head(sorted).date < p.date
    THEN <<p>> \o sorted
    ELSE <<Head(sorted)>> \o InsertByDate(p, Tail(sorted))

RECURSIVE SortByDate(_)
SortByDate(list) ==
    IF list = <<>> THEN <<>>
    ELSE InsertByDate(list[Len(list)], SortByDate(SubSeq(list, 1, Len(list) - 1)))

(***************************************************************************)
(* State                                                                   *)
(***************************************************************************)
VARIABLES
    \* App
    auth,             \* logged in (auth is not null)
    authError,        \* the message for the Login screen ("" when null)
    loginError,       \* Login's own error state, set from authError when it mounts
    posts,            \* the in-memory post list
    isCommandPaletteOpen,
    \* CommandPalette
    search,           \* the text of the search input
    selectedIndex,    \* a JavaScript number: [nan, val]
    currentView,      \* "dashboard" or "editor"
    editingPost,      \* the post handed to the Editor, NoPost for a new one
    \* Dashboard
    dashId,           \* the Dashboard instance mounted last
    loading,          \* its loading flag
    dashError,        \* its error message is shown
    fetches,          \* getPosts calls in flight, each the instance that made it
    deletes,          \* deletePost calls in flight
    \* Editor form
    editorId,         \* the Editor instance mounted last
    title,            \* formState.title
    date,             \* formState.date
    isPublishing,
    publishes,        \* createOrUpdatePost calls in flight
    backTimers,       \* pending setTimeout(() => onBack(), 1000)
    \* Editor drafts
    drafts,           \* local storage: draft key -> the stored form (NoDraft: none)
    debounced,        \* debouncedFormState
    debounceTimer,    \* the debounce timer is pending
    \* the host
    hostPosts,        \* path -> the file the repository holds (sha 0: none)
    nextSha,          \* the revision the host hands out next
    \* Editor
    pastedImage,      \* the pasted file (its natural size), NoImage when no modal is shown
    modalMounted,     \* the modal has been mounted
    content,          \* formState.content, a sequence of tokens
    cursorPosition,   \* textarea.selectionStart recorded by the paste
    status,           \* the status line
    hostUploads,      \* handleImageUpload calls awaiting the host's write
    statusTimers,     \* pending setTimeout(() => setStatus(''))
    \* ImageUploadModal, React state of the open instance
    imageSrc,         \* the FileReader has delivered the data URL
    originalDims,     \* natural size once the image has loaded
    viewBox,          \* displayed size (units) and scale (rational)
    crop,             \* the crop rectangle (units)
    alt,
    fileName,
    uploadPathOption,
    quality,          \* per cent
    resizeWidth,      \* text of the width field
    resizeHeight,     \* text of the height field
    keepAspectRatio,
    isProcessing,
    isAiLoading,
    canvas,           \* the hidden canvas: its size and the source rectangle drawn
    \* asynchronous work in flight
    pendingEncode,    \* the canvas.toBlob callback not yet run, or NoJob
    aiPending,        \* generateImageAltText has not settled yet
    \* drag
    dragState,        \* dragStateRef.current
    moveListener,     \* window has the modal's mousemove listener
    upListener,       \* window has the modal's mouseup listener
    buttonHeld,       \* a pointer-down on the crop has not yet seen its pointer-up
    gestures,         \* drag gestures started on the open modal
    \* observation
    draftCleared,     \* a save cleared the open post's draft and no edit followed
    pointer,          \* where the gesture in progress last saw the pointer
    alertMsg,         \* the alert() raised by the last handler ("" when none)
    event,            \* the handler branch that ran last
    unmountedWrites   \* state setters called on an instance after it unmounted

editorVars == <<pastedImage, modalMounted, content, cursorPosition, status, hostUploads,
                statusTimers>>
geomVars   == <<originalDims, viewBox, crop>>
fieldVars  == <<alt, fileName, uploadPathOption, quality, keepAspectRatio>>
resizeVars == <<resizeWidth, resizeHeight>>
procVars   == <<isProcessing, canvas, pendingEncode>>
aiVars     == <<isAiLoading, aiPending>>
dragVars   == <<dragState, moveListener, upListener, buttonHeld, gestures>>
appVars    == <<posts, currentView, editingPost>>
dashVars   == <<dashId, loading, dashError, fetches, deletes>>
formVars   == <<editorId, title, date, isPublishing, publishes, backTimers>>
hostVars   == <<hostPosts, nextSha>>
draftVars  == <<drafts, debounced, debounceTimer, draftCleared>>
authVars   == <<auth, authError, loginError>>
paletteVars == <<isCommandPaletteOpen, search, selectedIndex>>
siteVars   == <<appVars, dashVars, formVars, hostVars, draftVars, authVars, paletteVars>>
\* the image flow but for the status line
imageVars  == <<pastedImage, modalMounted, content, cursorPosition, hostUploads, imageSrc,
                originalDims, viewBox, crop, alt, fileName, uploadPathOption, quality,
                keepAspectRatio, resizeWidth, resizeHeight, isProcessing, canvas,
                pendingEncode, isAiLoading, aiPending, dragState, moveListener, upListener,
                buttonHeld, gestures, pointer>>
\* what outlives an Editor instance
asyncVars  == <<modalMounted, hostUploads, statusTimers, pendingEncode, aiPending,
                dragState, moveListener, upListener, buttonHeld, pointer, unmountedWrites>>
modalVars  == <<imageSrc, geomVars, fieldVars, resizeVars, isProcessing, isAiLoading, canvas>>

vars == <<editorVars, imageSrc, geomVars, fieldVars, resizeVars, procVars, aiVars,
          dragVars, siteVars, pointer, alertMsg, event, unmountedWrites>>

ZeroDims == [width |-> 0, height |-> 0]
ZeroCrop == [x |-> 0, y |-> 0, width |-> 0, height |-> 0]
ZeroViewBox == [width |-> 0, height |-> 0, scaleNum |-> 1, scaleDen |-> 1]
\* a canvas nothing has been drawn on has the default size
BlankCanvas == [drawn |-> FALSE, width |-> 300, height |-> 150,
                sourceX |-> 0, sourceY |-> 0, sourceWidth |-> 0, sourceHeight |-> 0]

ModalOpen == pastedImage # NoImage
NoJob == [alt |-> ""]

\* the image's natural pixels are a whole number of display pixels on each
\* axis of the fitted ViewBox
FitsExactly(img) ==
    IF img.naturalWidth * Container.clientHeight > img.naturalHeight * Container.clientWidth
    THEN (Container.clientWidth * img.naturalHeight) % img.naturalWidth = 0
    ELSE (Container.clientHeight * img.naturalWidth) % img.naturalHeight = 0

(***************************************************************************)
(* onImageLoad: fit the image into the container, centre a 90% crop        *)
(***************************************************************************)
FitViewBox(img) ==
    IF img.naturalWidth * Container.clientHeight > img.naturalHeight * Container.clientWidth
    THEN [width    |-> Px(Container.clientWidth),
          height   |-> (Px(Container.clientWidth) * img.naturalHeight) \div img.naturalWidth,
          scaleNum |-> img.naturalWidth * Unit,
          scaleDen |-> Px(Container.clientWidth)]
    ELSE [width    |-> (Px(Container.clientHeight) * img.naturalWidth) \div img.naturalHeight,
          height   |-> Px(Container.clientHeight),
          scaleNum |-> img.naturalHeight * Unit,
          scaleDen |-> Px(Container.clientHeight)]

\* mutant: the 90% crop sits in the top left corner
InitialCropAtOrigin(vb) ==
    [x |-> 0, y |-> 0, width |-> (vb.width * 9) \div 10, height |-> (vb.height * 9) \div 10]

InitialCrop(vb) ==
    LET cropWidth  == (vb.width * 9) \div 10
        cropHeight == (vb.height * 9) \div 10
    IN  [x      |-> (vb.width - cropWidth) \div 2,
         y      |-> (vb.height - cropHeight) \div 2,
         width  |-> cropWidth,
         height |-> cropHeight]

(***************************************************************************)
(* handleMouseMove: the crop proposed by a pointer delta, then clamped     *)
(***************************************************************************)
ProposedCrop(type, initialCrop, dx, dy) ==
    IF type = "move"
    THEN [initialCrop EXCEPT !.x = initialCrop.x + dx, !.y = initialCrop.y + dy]
    ELSE LET c1 == IF Includes(type, "n")
                   THEN [initialCrop EXCEPT !.y = initialCrop.y + dy,
                                            !.height = initialCrop.height - dy]
                   ELSE initialCrop
             c2 == IF Includes(type, "s")
                   THEN [c1 EXCEPT !.height = initialCrop.height + dy]
                   ELSE c1
             c3 == IF Includes(type, "w")
                   THEN [c2 EXCEPT !.x = initialCrop.x + dx,
                                   !.width = initialCrop.width - dx]
                   ELSE c2
         IN  IF Includes(type, "e")
             THEN [c3 EXCEPT !.width = initialCrop.width + dx]
             ELSE c3

\* mutant: the floor is applied to the height only
FloorHeightOnly(type, initialCrop, c) ==
    IF c.height < Px(MinSize)
    THEN [c EXCEPT !.height = Px(MinSize),
                   !.y = IF Includes(type, "n")
                         THEN initialCrop.y + initialCrop.height - Px(MinSize)
                         ELSE c.y]
    ELSE c

FloorSize(type, initialCrop, c) ==
    LET c1 == IF c.height < Px(MinSize)
              THEN [c EXCEPT !.height = Px(MinSize),
                             !.y = IF Includes(type, "n")
                                   THEN initialCrop.y + initialCrop.height - Px(MinSize)
                                   ELSE c.y]
              ELSE c
    IN  IF c1.width < Px(MinSize)
        THEN [c1 EXCEPT !.width = Px(MinSize),
                        !.x = IF Includes(type, "w")
                              THEN initialCrop.x + initialCrop.width - Px(MinSize)
                              ELSE c1.x]
        ELSE c1

\* mutant: the rectangle is moved into the ViewBox but never shrunk
ClampWithoutShrink(c, vbWidth, vbHeight) ==
    [x      |-> Max(0, Min(c.x, vbWidth - c.width)),
     y      |-> Max(0, Min(c.y, vbHeight - c.height)),
     width  |-> c.width,
     height |-> c.height]

ClampToViewBox(c, vbWidth, vbHeight) ==
    LET x == Max(0, Min(c.x, vbWidth - c.width))
        y == Max(0, Min(c.y, vbHeight - c.height))
    IN  [x      |-> x,
         y      |-> y,
         width  |-> IF x + c.width > vbWidth THEN vbWidth - x ELSE c.width,
         height |-> IF y + c.height > vbHeight THEN vbHeight - y ELSE c.height]

UpdateDrag(type, initialCrop, dx, dy, vbWidth, vbHeight) ==
    ClampToViewBox(FloorSize(type, initialCrop, ProposedCrop(type, initialCrop, dx, dy)),
                   vbWidth, vbHeight)

(***************************************************************************)
(* Derived values of the modal                                             *)
(***************************************************************************)
\* Math.round(v * viewBox.scale) for a display length v
ToSource(v, vb) == RoundDiv(v * vb.scaleNum, Unit * vb.scaleDen)

\* the effect on [crop, viewBox.scale]: the resize fields follow the crop
SyncResize(c, vb, old) ==
    IF c.width > 0 /\ c.height > 0
    THEN <<ToStr(ToSource(c.width, vb)), ToStr(ToSource(c.height, vb))>>
    ELSE old

\* mutant: the requested size is not limited to the natural size
FinalDimUnclamped(text, cropLen, vb, natural) ==
    OrElse(ParseInt(text), ToSource(cropLen, vb))

\* finalWidth / finalHeight of handleUpload
FinalDim(text, cropLen, vb, natural) ==
    Min(OrElse(ParseInt(text), ToSource(cropLen, vb)), natural)

\* slugify(formState.title) || 'untitled'
DraftKeys == {"new"} \cup Paths
FormState == [title |-> title, date |-> date, content |-> content]
\* isDirty: the form differs from the one the Editor started from
IsDirty == FormState # InitialState(editingPost)

PostSlug == IF Slugify(title) = <<>> THEN "untitled" ELSE Concat(Slugify(title))
SuggestedName == "image-1.png"
PathPrefix(option) == IF option = "post"
                      THEN "assets/img/posts/" \o PostSlug \o "/"
                      ELSE "assets/img/"
FullPath(option, name) == PathPrefix(option) \o name

RequiredMsg == "Alt text and filename are required."
AiFailedMsg == "Could not generate alt text. Please check the console for errors."
AiText == "a generated description"

\* ![alt](/fullPath)
Markdown(a, path) == "![" \o a \o "](/" \o path \o ")"

\* slice(0, pos) + tok + slice(pos); slice stops at the end of the text
InsertAt(s, pos, tok) ==
    LET at == IF pos > Len(s) THEN Len(s) ELSE pos
    IN  SubSeq(s, 1, at) \o <<tok>> \o SubSeq(s, at + 1, Len(s))

RemoveAt(s, i) == SubSeq(s, 1, i - 1) \o SubSeq(s, i + 1, Len(s))

(***************************************************************************)
(* Mounting and unmounting the modal                                       *)
(***************************************************************************)
\* useState initial values; an unmounted instance's state is kept at these
FreshModal(name) ==
    /\ imageSrc' = FALSE
    /\ originalDims' = ZeroDims
    /\ viewBox' = ZeroViewBox
    /\ crop' = ZeroCrop
    /\ alt' = ""
    /\ fileName' = name
    /\ uploadPathOption' = "post"
    /\ quality' = 85
    /\ resizeWidth' = <<>>
    /\ resizeHeight' = <<>>
    /\ keepAspectRatio' = TRUE
    /\ isProcessing' = FALSE
    /\ isAiLoading' = FALSE
    /\ canvas' = BlankCanvas
    /\ gestures' = 0

\* JavaScript numbers that may be NaN
Num(v) == [nan |-> FALSE, val |-> v]
NaN == [nan |-> TRUE, val |-> 0]

\* no image has been pasted, the palette is closed and nothing is in flight
InitImage ==
    /\ isCommandPaletteOpen = FALSE
    /\ search = <<>>
    /\ selectedIndex = Num(0)
    /\ pastedImage = NoImage
    /\ modalMounted = FALSE
    /\ cursorPosition = 0
    /\ status = ""
    /\ hostUploads = <<>>
    /\ statusTimers = 0
    /\ imageSrc = FALSE
    /\ originalDims = ZeroDims
    /\ viewBox = ZeroViewBox
    /\ crop = ZeroCrop
    /\ alt = ""
    /\ fileName = ""
    /\ uploadPathOption = "post"
    /\ quality = 85
    /\ resizeWidth = <<>>
    /\ resizeHeight = <<>>
    /\ keepAspectRatio = TRUE
    /\ isProcessing = FALSE
    /\ isAiLoading = FALSE
    /\ canvas = BlankCanvas
    /\ pendingEncode = NoJob
    /\ aiPending = FALSE
    /\ dragState = NoDrag
    /\ moveListener = FALSE
    /\ upListener = FALSE
    /\ buttonHeld = FALSE
    /\ gestures = 0
    /\ pointer = [x |-> 0, y |-> 0]
    /\ alertMsg = ""
    /\ event = "init"
    /\ unmountedWrites = {}

\* a logged-in session, the Editor open on a new post with some text typed
Init ==
    /\ auth = TRUE
    /\ authError = ""
    /\ loginError = ""
    /\ posts = <<FirstPost>>
    /\ currentView = "editor"
    /\ editingPost = NoPost
    /\ dashId = 1
    /\ loading = FALSE
    /\ dashError = FALSE
    /\ fetches = <<>>
    /\ deletes = <<>>
    /\ editorId = 1
    /\ title = <<>>
    /\ date = Today
    /\ isPublishing = FALSE
    /\ publishes = <<>>
    /\ backTimers = 0
    /\ drafts = [k \in DraftKeys |-> IF k = "new"
                                     THEN [title |-> <<>>, date |-> Today, content |-> <<"text">>]
                                     ELSE NoDraft]
    /\ debounced = [title |-> <<>>, date |-> Today, content |-> <<"text">>]
    /\ debounceTimer = FALSE
    /\ draftCleared = FALSE
    /\ hostPosts = [p \in Paths |-> IF p = FirstPost.path
                                    THEN [sha |-> FirstPost.sha, date |-> FirstPost.date,
                                          title |-> FirstPost.title, parses |-> TRUE]
                                    ELSE NoFile]
    /\ nextSha = FirstPost.sha + 1
    /\ content = <<"text">>
    /\ InitImage

\* files the repository may hold when a session starts
HostFiles == { NoFile } \cup
             { [sha |-> 1, date |-> d, title |-> <<"A">>, parses |-> ok] :
                  d \in Dates \cup {MissingDate, InvalidDate}, ok \in BOOLEAN }

\* the App mounts with stored credentials: the Dashboard is shown and its
\* first getPosts is in flight
InitFetch ==
    /\ auth = TRUE
    /\ authError = ""
    /\ loginError = ""
    /\ posts = <<>>
    /\ currentView = "dashboard"
    /\ editingPost = NoPost
    /\ dashId = 1
    /\ loading = TRUE
    /\ dashError = FALSE
    /\ fetches = <<1>>
    /\ deletes = <<>>
    /\ editorId = 0
    /\ title = <<>>
    /\ date = Today
    /\ isPublishing = FALSE
    /\ publishes = <<>>
    /\ backTimers = 0
    /\ drafts = [k \in DraftKeys |-> NoDraft]
    /\ debounced = NoDraft
    /\ debounceTimer = FALSE
    /\ draftCleared = FALSE
    /\ hostPosts \in [Paths -> HostFiles]
    /\ nextSha = 2
    /\ content = <<>>
    /\ InitImage

\* Editor paste listener: an image is pasted into the textarea, the modal
\* mounts and its [imageFile] effect suggests a file name
Paste(images) ==
    /\ currentView = "editor"
    /\ ~ModalOpen
    /\ ~modalMounted
    /\ \E img \in images :
          /\ FitsExactly(img)
          /\ pastedImage' = img
    /\ \E pos \in 0..Len(content) : cursorPosition' = pos
    /\ modalMounted' = TRUE
    /\ FreshModal(SuggestedName)
    /\ alertMsg' = ""
    /\ event' = "paste"
    /\ UNCHANGED <<content, status, hostUploads, statusTimers, pendingEncode, aiPending,
                   dragState, moveListener, upListener, buttonHeld, unmountedWrites>>
    /\ UNCHANGED <<siteVars, pointer>>

\* reader.onload: setImageSrc
ReaderLoad ==
    /\ ModalOpen
    /\ ~imageSrc
    /\ imageSrc' = TRUE
    /\ alertMsg' = ""
    /\ event' = "readerLoad"
    /\ UNCHANGED <<editorVars, geomVars, fieldVars, resizeVars, procVars, aiVars,
                   dragVars, unmountedWrites>>
    /\ UNCHANGED <<siteVars, pointer>>

OnImageLoad ==
    /\ ModalOpen
    /\ imageSrc
    /\ originalDims.width = 0
    /\ originalDims' = [width |-> pastedImage.naturalWidth,
                        height |-> pastedImage.naturalHeight]
    /\ viewBox' = FitViewBox(pastedImage)
    /\ crop' = InitialCrop(FitViewBox(pastedImage))
    /\ LET r == SyncResize(InitialCrop(FitViewBox(pastedImage)), FitViewBox(pastedImage),
                           <<resizeWidth, resizeHeight>>)
       IN  resizeWidth' = r[1] /\ resizeHeight' = r[2]
    /\ alertMsg' = ""
    /\ event' = "imageLoad"
    /\ UNCHANGED <<editorVars, imageSrc, fieldVars, procVars, aiVars, dragVars,
                   unmountedWrites>>
    /\ UNCHANGED <<siteVars, pointer>>

\* the Cancel button: onClose -> setPastedImage(null)
Cancel ==
    /\ ModalOpen
    /\ ~isProcessing
    /\ pastedImage' = NoImage
    /\ FreshModal("")
    /\ alertMsg' = ""
    /\ event' = "cancel"
    /\ UNCHANGED <<modalMounted, content, cursorPosition, status, hostUploads, statusTimers,
                   pendingEncode, aiPending, dragState, moveListener, upListener,
                   buttonHeld, unmountedWrites>>
    /\ UNCHANGED <<siteVars, pointer>>

(***************************************************************************)
(* Drag gestures                                                           *)
(***************************************************************************)
HandleMouseDown(handles) ==
    /\ ModalOpen
    /\ originalDims.width > 0
    /\ ~buttonHeld
    /\ gestures < MaxGestures
    /\ \E type \in handles :
          dragState' = [type |-> type, startX |-> 0, startY |-> 0, initialCrop |-> crop,
                        vbWidth |-> viewBox.width, vbHeight |-> viewBox.height]
    /\ moveListener' = TRUE
    /\ upListener' = TRUE
    /\ buttonHeld' = TRUE
    /\ gestures' = gestures + 1
    /\ pointer' = [x |-> 0, y |-> 0]
    /\ alertMsg' = ""
    /\ event' = "mouseDown"
    /\ UNCHANGED <<editorVars, imageSrc, geomVars, fieldVars, resizeVars, procVars, aiVars,
                   unmountedWrites>>
    /\ UNCHANGED siteVars

\* mutant: each move event applies its delta to the crop of the event before
HandleMouseMoveAccumulates(deltas) ==
    /\ moveListener
    /\ dragState # NoDrag
    /\ \E clientX \in deltas, clientY \in deltas :
          LET newCrop == UpdateDrag(dragState.type, crop,
                                    Px(clientX - dragState.startX),
                                    Px(clientY - dragState.startY),
                                    dragState.vbWidth, dragState.vbHeight)
          IN  /\ pointer' = [x |-> clientX, y |-> clientY]
              /\ IF ModalOpen
                 THEN /\ crop' = newCrop
                      /\ LET r == SyncResize(newCrop, viewBox,
                                             <<resizeWidth, resizeHeight>>)
                         IN  resizeWidth' = r[1] /\ resizeHeight' = r[2]
                      /\ UNCHANGED unmountedWrites
                 ELSE /\ unmountedWrites' = unmountedWrites \cup {"setCrop"}
                      /\ UNCHANGED <<crop, resizeVars>>
    /\ alertMsg' = ""
    /\ event' = "mouseMove"
    /\ UNCHANGED <<editorVars, imageSrc, originalDims, viewBox, fieldVars, procVars, aiVars,
                   dragVars>>
    /\ UNCHANGED siteVars

\* a mousemove on window while the listener is attached
HandleMouseMove(deltas) ==
    /\ moveListener
    /\ dragState # NoDrag
    /\ \E clientX \in deltas, clientY \in deltas :
          LET newCrop == UpdateDrag(dragState.type, dragState.initialCrop,
                                    Px(clientX - dragState.startX),
                                    Px(clientY - dragState.startY),
                                    dragState.vbWidth, dragState.vbHeight)
          IN  /\ pointer' = [x |-> clientX, y |-> clientY]
              /\ IF ModalOpen
                 THEN /\ crop' = newCrop
                      /\ LET r == SyncResize(newCrop, viewBox,
                                             <<resizeWidth, resizeHeight>>)
                         IN  resizeWidth' = r[1] /\ resizeHeight' = r[2]
                      /\ UNCHANGED unmountedWrites
                 ELSE /\ unmountedWrites' = unmountedWrites \cup {"setCrop"}
                      /\ UNCHANGED <<crop, resizeVars>>
    /\ alertMsg' = ""
    /\ event' = "mouseMove"
    /\ UNCHANGED <<editorVars, imageSrc, originalDims, viewBox, fieldVars, procVars, aiVars,
                   dragVars>>
    /\ UNCHANGED siteVars

\* mutant: pointer-up clears the drag state and removes only its own listener
HandleMouseUpKeepsMoveListener ==
    /\ buttonHeld
    /\ buttonHeld' = FALSE
    /\ IF upListener
       THEN /\ dragState' = NoDrag
            /\ upListener' = FALSE
            /\ UNCHANGED moveListener
       ELSE UNCHANGED <<dragState, moveListener, upListener>>
    /\ alertMsg' = ""
    /\ event' = "mouseUp"
    /\ UNCHANGED <<editorVars, imageSrc, geomVars, fieldVars, resizeVars, procVars, aiVars,
                   gestures, unmountedWrites>>
    /\ pointer' = [x |-> 0, y |-> 0]
    /\ UNCHANGED siteVars

\* the pointer-up that ends the gesture, wherever it occurs
HandleMouseUp ==
    /\ buttonHeld
    /\ buttonHeld' = FALSE
    /\ IF upListener
       THEN /\ dragState' = NoDrag
            /\ moveListener' = FALSE
            /\ upListener' = FALSE
       ELSE UNCHANGED <<dragState, moveListener, upListener>>
    /\ alertMsg' = ""
    /\ event' = "mouseUp"
    /\ UNCHANGED <<editorVars, imageSrc, geomVars, fieldVars, resizeVars, procVars, aiVars,
                   gestures, unmountedWrites>>
    /\ pointer' = [x |-> 0, y |-> 0]
    /\ UNCHANGED siteVars

(***************************************************************************)
(* Field edits                                                             *)
(***************************************************************************)
AltEntries == {"", "a cat"}
FileNameEntries == {"", SuggestedName}
ResizeEntries == { <<>>, <<"0">>, <<"x">>, <<"4", "5">>, <<"9", "9", "9", "9">> }
OutputEntries == { <<>>, <<"0">>, <<"-", "5">>, <<"x">>, <<"7">> }

SetAlt ==
    /\ ModalOpen
    /\ \E v \in AltEntries : v # alt /\ alt' = v
    /\ alertMsg' = ""
    /\ event' = "setAlt"
    /\ UNCHANGED <<editorVars, imageSrc, geomVars, fileName, uploadPathOption, quality,
                   keepAspectRatio, resizeVars, procVars, aiVars, dragVars, unmountedWrites>>
    /\ UNCHANGED <<siteVars, pointer>>

SetFileName ==
    /\ ModalOpen
    /\ \E v \in FileNameEntries : v # fileName /\ fileName' = v
    /\ alertMsg' = ""
    /\ event' = "setFileName"
    /\ UNCHANGED <<editorVars, imageSrc, geomVars, alt, uploadPathOption, quality,
                   keepAspectRatio, resizeVars, procVars, aiVars, dragVars, unmountedWrites>>
    /\ UNCHANGED <<siteVars, pointer>>

SetUploadPathOption ==
    /\ ModalOpen
    /\ uploadPathOption' = IF uploadPathOption = "post" THEN "shared" ELSE "post"
    /\ alertMsg' = ""
    /\ event' = "setUploadPathOption"
    /\ UNCHANGED <<editorVars, imageSrc, geomVars, alt, fileName, quality,
                   keepAspectRatio, resizeVars, procVars, aiVars, dragVars, unmountedWrites>>
    /\ UNCHANGED <<siteVars, pointer>>

SetQuality ==
    /\ ModalOpen
    /\ \E q \in {10, 85} : q # quality /\ quality' = q
    /\ alertMsg' = ""
    /\ event' = "setQuality"
    /\ UNCHANGED <<editorVars, imageSrc, geomVars, alt, fileName, uploadPathOption,
                   keepAspectRatio, resizeVars, procVars, aiVars, dragVars, unmountedWrites>>
    /\ UNCHANGED <<siteVars, pointer>>

SetKeepAspectRatio ==
    /\ ModalOpen
    /\ keepAspectRatio' = ~keepAspectRatio
    /\ alertMsg' = ""
    /\ event' = "setKeepAspectRatio"
    /\ UNCHANGED <<editorVars, imageSrc, geomVars, alt, fileName, uploadPathOption,
                   quality, resizeVars, procVars, aiVars, dragVars, unmountedWrites>>
    /\ UNCHANGED <<siteVars, pointer>>

\* mutant: the ratio is taken upside down
LockedAxisInverted(numValue, this, that) ==
    IF this = 0 THEN <<"N", "a", "N">> ELSE ToStr(RoundDiv(numValue * that, this))

\* String(Math.round(numValue * this / that)) with this / that the ratio of
\* the scaled crop; 0 / 0 is NaN
LockedAxis(numValue, this, that) ==
    IF that = 0 THEN <<"N", "a", "N">> ELSE ToStr(RoundDiv(numValue * this, that))

\* mutant: the lock keeps the ratio of the two fields, not of the crop
ResizeChangeFromFields(axis, value, c, keep, oldWidth, oldHeight) ==
    LET numValue == ParseInt(value)
        locked   == keep /\ ~numValue.nan /\ numValue.val > 0
        w        == ParseInt(oldWidth).val
        h        == ParseInt(oldHeight).val
    IN  IF axis = "width"
        THEN <<value, IF locked THEN LockedAxis(numValue.val, h, w) ELSE oldHeight>>
        ELSE <<IF locked THEN LockedAxis(numValue.val, w, h) ELSE oldWidth, value>>

\* handleResizeChange: the new texts of the width and the height field
ResizeChange(axis, value, c, keep, oldWidth, oldHeight) ==
    LET numValue == ParseInt(value)
        locked   == keep /\ ~numValue.nan /\ numValue.val > 0
    IN  IF axis = "width"
        THEN <<value,
               IF locked THEN LockedAxis(numValue.val, c.height, c.width) ELSE oldHeight>>
        ELSE <<IF locked THEN LockedAxis(numValue.val, c.width, c.height) ELSE oldWidth,
               value>>

\* the text of the default output size, for a user who types it back
DefaultEntries ==
    { ToStr(ToSource(crop.width, viewBox)), ToStr(ToSource(crop.height, viewBox)) }

\* onChange of the width or the height field
HandleResizeChange(entries) ==
    /\ ModalOpen
    /\ \E axis \in {"width", "height"}, value \in entries :
          LET r == ResizeChange(axis, value, crop, keepAspectRatio, resizeWidth, resizeHeight)
          IN  /\ resizeWidth' = r[1]
              /\ resizeHeight' = r[2]
              /\ event' = (IF axis = "width" THEN "resizeWidth" ELSE "resizeHeight")
    /\ alertMsg' = ""
    /\ UNCHANGED <<editorVars, imageSrc, geomVars, fieldVars, procVars, aiVars, dragVars,
                   unmountedWrites>>
    /\ UNCHANGED <<siteVars, pointer>>

(***************************************************************************)
(* Upload                                                                  *)
(***************************************************************************)
\* what handleUpload draws: the canvas size and the source rectangle
Render(c, vb, natural, widthText, heightText) ==
    [drawn        |-> TRUE,
     width        |-> FinalDim(widthText, c.width, vb, natural.width),
     height       |-> FinalDim(heightText, c.height, vb, natural.height),
     sourceX      |-> ToSource(c.x, vb),
     sourceY      |-> ToSource(c.y, vb),
     sourceWidth  |-> ToSource(c.width, vb),
     sourceHeight |-> ToSource(c.height, vb)]

\* mutant: only the alt text is required
ValidatesAltOnly(a, name) == a # ""

\* the required-field check of handleUpload
Validates(a, name) == a # "" /\ name # ""

\* what the toBlob callback closes over (onUpload is the Editor's
\* handleImageUpload of the same render, with its content and cursor), and
\* whether the canvas it encodes has any pixels
EncodeJob ==
    LET r == Render(crop, viewBox, originalDims, resizeWidth, resizeHeight)
    IN  [alt |-> alt,
         fullPath |-> FullPath(uploadPathOption, fileName),
         content |-> content, cursorPosition |-> cursorPosition,
         hasPixels |-> r.width > 0 /\ r.height > 0]

\* the 'Upload & Insert' button (disabled while isProcessing); like every
\* button of the modal it can be activated from the keyboard, also while a
\* drag gesture holds the pointer
HandleUpload ==
    /\ ModalOpen
    /\ ~isProcessing
    /\ \/ /\ ~Validates(alt, fileName)
          /\ alertMsg' = RequiredMsg
          /\ event' = "uploadBlocked"
          /\ UNCHANGED <<isProcessing, canvas, pendingEncode>>
       \/ /\ Validates(alt, fileName)
          /\ ~imageSrc
          /\ alertMsg' = ""
          /\ event' = "uploadNoImage"
          /\ UNCHANGED <<isProcessing, canvas, pendingEncode>>
       \/ /\ Validates(alt, fileName)
          /\ imageSrc
          /\ alertMsg' = ""
          /\ event' = "uploadNoContext"
          /\ UNCHANGED <<isProcessing, canvas, pendingEncode>>
       \/ /\ Validates(alt, fileName)
          /\ imageSrc
          /\ Len(hostUploads) < MaxInFlight
          /\ isProcessing' = TRUE
          /\ canvas' = Render(crop, viewBox, originalDims, resizeWidth, resizeHeight)
          /\ pendingEncode' = EncodeJob
          /\ alertMsg' = ""
          /\ event' = "uploadStarted"
    /\ UNCHANGED <<editorVars, imageSrc, geomVars, fieldVars, resizeVars, aiVars, dragVars,
                   unmountedWrites>>
    /\ UNCHANGED <<siteVars, pointer>>

\* mutant: the callback hands the job to the host twice
StartHostUploadTwice(job) ==
    /\ status' = "Uploading image..."
    /\ hostUploads' = hostUploads \o
           << [alt |-> job.alt, fullPath |-> job.fullPath,
               content |-> job.content, cursorPosition |-> job.cursorPosition],
              [alt |-> job.alt, fullPath |-> job.fullPath,
               content |-> job.content, cursorPosition |-> job.cursorPosition] >>

\* Editor.handleImageUpload up to its first await
StartHostUpload(job) ==
    /\ status' = "Uploading image..."
    /\ hostUploads' = Append(hostUploads, [alt |-> job.alt, fullPath |-> job.fullPath,
                                           content |-> job.content,
                                           cursorPosition |-> job.cursorPosition])

\* the toBlob callback: with a blob it emits onUpload, then
\* setIsProcessing(false); a canvas without pixels never yields a blob
ToBlobCallback ==
    /\ pendingEncode # NoJob
    /\ \E blob \in (IF pendingEncode.hasPixels THEN BOOLEAN ELSE {FALSE}) :
          /\ pendingEncode' = NoJob
          /\ IF blob
             THEN /\ StartHostUpload(pendingEncode)
                  /\ event' = "encoded"
             ELSE /\ UNCHANGED <<status, hostUploads>>
                  /\ event' = "encodeFailed"
          /\ IF ModalOpen
             THEN /\ isProcessing' = FALSE
                  /\ UNCHANGED unmountedWrites
             ELSE /\ unmountedWrites' = unmountedWrites \cup {"setIsProcessing"}
                  /\ UNCHANGED isProcessing
    /\ alertMsg' = ""
    /\ UNCHANGED <<pastedImage, modalMounted, content, cursorPosition, statusTimers, imageSrc,
                   geomVars, fieldVars, resizeVars, canvas, aiVars, dragVars>>
    /\ UNCHANGED <<siteVars, pointer>>

\* the renders that follow a setFormState of the mounted Editor: the
\* debounce restarts, and when isDirty turns true the autosave effect
\* stores the debounced form
AutosaveOnEdit(newForm) ==
    /\ debounceTimer' = TRUE
    /\ draftCleared' = FALSE
    /\ UNCHANGED debounced
    /\ drafts' = (IF ~IsDirty /\ newForm # InitialState(editingPost)
                  THEN [drafts EXCEPT ![DraftKey(editingPost)] = debounced]
                  ELSE drafts)

\* mutant: a failed write stays queued and is attempted again
UploadSettledRetries ==
    /\ \E i \in 1..Len(hostUploads), ok \in BOOLEAN :
          LET up == hostUploads[i]
          IN  IF ok
              THEN /\ hostUploads' = RemoveAt(hostUploads, i)
                   /\ content' = InsertAt(up.content, up.cursorPosition,
                                          Markdown(up.alt, up.fullPath))
                   /\ AutosaveOnEdit([FormState EXCEPT !.content =
                                          InsertAt(up.content, up.cursorPosition,
                                                   Markdown(up.alt, up.fullPath))])
                   /\ status' = "Image inserted!"
                   /\ event' = "uploadDone"
              ELSE /\ hostUploads' = hostUploads
                   /\ content' = content
                   /\ UNCHANGED draftVars
                   /\ status' = "Image upload failed."
                   /\ event' = "uploadFailed"
    /\ pastedImage' = NoImage
    /\ statusTimers' = statusTimers + 1
    /\ FreshModal("")
    /\ alertMsg' = ""
    /\ UNCHANGED <<modalMounted, cursorPosition, pendingEncode, aiPending, dragState,
                   moveListener, upListener, buttonHeld, unmountedWrites>>
    /\ UNCHANGED <<appVars, dashVars, formVars, hostVars, pointer>>
    /\ UNCHANGED authVars
    /\ UNCHANGED paletteVars

\* Editor.handleImageUpload after uploadImage settles: insert the markdown
\* on success, report on failure, and in both cases dismiss the modal
UploadSettled ==
    /\ \E i \in 1..Len(hostUploads), ok \in BOOLEAN :
          LET up == hostUploads[i]
          IN  /\ hostUploads' = RemoveAt(hostUploads, i)
              /\ IF ok
                 THEN /\ content' = InsertAt(up.content, up.cursorPosition,
                                             Markdown(up.alt, up.fullPath))
                      /\ AutosaveOnEdit([FormState EXCEPT !.content =
                                             InsertAt(up.content, up.cursorPosition,
                                                      Markdown(up.alt, up.fullPath))])
                      /\ status' = "Image inserted!"
                      /\ event' = "uploadDone"
                 ELSE /\ content' = content
                      /\ UNCHANGED draftVars
                      /\ status' = "Image upload failed."
                      /\ event' = "uploadFailed"
    /\ pastedImage' = NoImage
    /\ statusTimers' = statusTimers + 1
    /\ FreshModal("")
    /\ alertMsg' = ""
    /\ UNCHANGED <<modalMounted, cursorPosition, pendingEncode, aiPending, dragState,
                   moveListener, upListener, buttonHeld, unmountedWrites>>
    /\ UNCHANGED <<appVars, dashVars, formVars, hostVars, pointer>>
    /\ UNCHANGED authVars
    /\ UNCHANGED paletteVars

\* setTimeout(() => setStatus(''), 3000)
StatusTimeout ==
    /\ statusTimers > 0
    /\ statusTimers' = statusTimers - 1
    /\ status' = ""
    /\ alertMsg' = ""
    /\ event' = "statusTimeout"
    /\ UNCHANGED <<pastedImage, modalMounted, content, cursorPosition, hostUploads, imageSrc,
                   geomVars, fieldVars, resizeVars, procVars, aiVars, dragVars,
                   unmountedWrites>>
    /\ UNCHANGED <<siteVars, pointer>>

(***************************************************************************)
(* AI alt text                                                             *)
(***************************************************************************)
\* the sparkles button (disabled while isAiLoading)
HandleGenerateAltText ==
    /\ ModalOpen
    /\ ~isAiLoading
    /\ isAiLoading' = TRUE
    /\ aiPending' = TRUE
    /\ alertMsg' = ""
    /\ event' = "aiRequested"
    /\ UNCHANGED <<editorVars, imageSrc, geomVars, fieldVars, resizeVars, procVars,
                   dragVars, unmountedWrites>>
    /\ UNCHANGED <<siteVars, pointer>>

\* mutant: a failure clears the alt text
AiSettledClearsAlt ==
    /\ aiPending
    /\ \E ok \in BOOLEAN :
          /\ aiPending' = FALSE
          /\ alertMsg' = IF ok THEN "" ELSE AiFailedMsg
          /\ event' = IF ok THEN "aiDone" ELSE "aiFailed"
          /\ IF ModalOpen
             THEN /\ alt' = IF ok THEN AiText ELSE ""
                  /\ isAiLoading' = FALSE
                  /\ UNCHANGED unmountedWrites
             ELSE /\ unmountedWrites' = unmountedWrites \cup
                        (IF ok THEN {"setAlt", "setIsAiLoading"} ELSE {"setIsAiLoading"})
                  /\ UNCHANGED <<alt, isAiLoading>>
    /\ UNCHANGED <<editorVars, imageSrc, geomVars, fileName, uploadPathOption, quality,
                   keepAspectRatio, resizeVars, procVars, dragVars>>
    /\ UNCHANGED <<siteVars, pointer>>

\* generateImageAltText settles: setAlt on success, alert on failure, and
\* setIsAiLoading(false) in both cases
AiSettled ==
    /\ aiPending
    /\ \E ok \in BOOLEAN :
          /\ aiPending' = FALSE
          /\ alertMsg' = IF ok THEN "" ELSE AiFailedMsg
          /\ event' = IF ok THEN "aiDone" ELSE "aiFailed"
          /\ IF ModalOpen
             THEN /\ alt' = IF ok THEN AiText ELSE alt
                  /\ isAiLoading' = FALSE
                  /\ UNCHANGED unmountedWrites
             ELSE /\ unmountedWrites' = unmountedWrites \cup
                        (IF ok THEN {"setAlt", "setIsAiLoading"} ELSE {"setIsAiLoading"})
                  /\ UNCHANGED <<alt, isAiLoading>>
    /\ UNCHANGED <<editorVars, imageSrc, geomVars, fileName, uploadPathOption, quality,
                   keepAspectRatio, resizeVars, procVars, dragVars>>
    /\ UNCHANGED <<siteVars, pointer>>

(***************************************************************************)
(* Navigation between the Dashboard and the Editor                         *)
(***************************************************************************)
\* the Editor mounts for a post (NoPost: a new one) with its useState
\* defaults; the state of the instance before it is gone
MountEditor(post) ==
    /\ editorId' = editorId + 1
    /\ \E restore \in BOOLEAN :
          LET initial == InitialState(post)
              draft == drafts[DraftKey(post)]
              form == IF restore /\ draft # NoDraft /\ draft # initial THEN draft ELSE initial
          IN  /\ title' = form.title
              /\ date' = form.date
              /\ content' = form.content
              /\ debounced' = initial
              /\ debounceTimer' = (form # initial)
              /\ drafts' = (IF form # initial
                            THEN [drafts EXCEPT ![DraftKey(post)] = initial]
                            ELSE drafts)
    /\ draftCleared' = FALSE
    /\ cursorPosition' = 0
    /\ status' = ""
    /\ isPublishing' = FALSE
    /\ pastedImage' = NoImage
    /\ FreshModal("")

\* App.handleBackToDashboard: from the editor view the Editor unmounts and
\* a Dashboard mounts, whose effect starts getPosts; in the dashboard view
\* the two setters change nothing
OnBack ==
    /\ editingPost' = NoPost
    /\ currentView' = "dashboard"
    /\ IF currentView = "editor"
       THEN /\ dashId' = dashId + 1
            /\ loading' = TRUE
            /\ dashError' = FALSE
            /\ fetches' = Append(fetches, dashId + 1)
            /\ title' = <<>>
            /\ date' = Today
            /\ content' = <<>>
            /\ cursorPosition' = 0
            /\ status' = ""
            /\ isPublishing' = FALSE
            /\ pastedImage' = NoImage
            /\ FreshModal("")
            /\ debounced' = NoDraft
            /\ debounceTimer' = FALSE
            /\ draftCleared' = FALSE
            /\ UNCHANGED drafts
       ELSE UNCHANGED <<dashId, loading, dashError, fetches, title, date, content,
                        cursorPosition, status, isPublishing, pastedImage, modalVars,
                        gestures, draftVars>>

\* requests to the host for posts, in flight
Requests == Len(publishes) + Len(deletes) + Len(fetches)

\* App.handleBackToDashboard called from the editor view
GoBack ==
    /\ currentView = "editor"
    /\ dashId < MaxVisits
    /\ Requests < MaxRequests
    /\ OnBack
    /\ alertMsg' = ""
    /\ event' = "back"
    /\ UNCHANGED <<posts, deletes, editorId, publishes, backTimers, hostVars, asyncVars>>
    /\ UNCHANGED authVars

\* the Editor's back button, disabled while a save is in progress
HandleBackToDashboard ==
    /\ ~isPublishing
    /\ GoBack
    /\ UNCHANGED paletteVars

\* setTimeout(() => onBack(), 1000) of a successful save fires
BackTimer ==
    /\ backTimers > 0
    /\ currentView = "editor" => dashId < MaxVisits /\ Requests < MaxRequests
    /\ backTimers' = backTimers - 1
    /\ OnBack
    /\ alertMsg' = ""
    /\ event' = "backTimer"
    /\ UNCHANGED <<posts, deletes, editorId, publishes, hostVars, asyncVars>>
    /\ UNCHANGED authVars
    /\ UNCHANGED paletteVars

\* App.handleNewPost
OpenNewPost ==
    /\ auth
    /\ currentView = "dashboard"
    /\ editorId < MaxVisits
    /\ editingPost' = NoPost
    /\ currentView' = "editor"
    /\ MountEditor(NoPost)
    /\ loading' = FALSE
    /\ dashError' = FALSE
    /\ alertMsg' = ""
    /\ event' = "newPost"
    /\ UNCHANGED <<posts, dashId, fetches, deletes, publishes, backTimers, hostVars,
                   asyncVars>>
    /\ UNCHANGED authVars

\* the Dashboard's 'New Post' button
HandleNewPost ==
    /\ OpenNewPost
    /\ UNCHANGED paletteVars

\* the Edit button of a listed post; the list shows once loading has ended
\* without an error
HandleEditPost ==
    /\ auth
    /\ currentView = "dashboard"
    /\ ~loading
    /\ ~dashError
    /\ editorId < MaxVisits
    /\ \E i \in 1..Len(posts) :
          /\ editingPost' = posts[i]
          /\ MountEditor(posts[i])
    /\ currentView' = "editor"
    /\ loading' = FALSE
    /\ dashError' = FALSE
    /\ alertMsg' = ""
    /\ event' = "editPost"
    /\ UNCHANGED <<posts, dashId, fetches, deletes, publishes, backTimers, hostVars,
                   asyncVars>>
    /\ UNCHANGED authVars
    /\ UNCHANGED paletteVars

BadCredentials ==
    "Bad credentials. Your GitHub token is invalid or has expired. Please log in again."

\* App.logout and the render that follows: the view shown unmounts with
\* its state and the Login screen is shown.  Login copies initialError
\* into its own state when it mounts, shownError being the authError of
\* the render that mounts it.
LoggedOut(shownError) ==
    /\ auth' = FALSE
    /\ posts' = <<>>
    /\ currentView' = "dashboard"
    /\ editingPost' = NoPost
    /\ authError' = ""
    /\ loginError' = (IF auth THEN shownError ELSE loginError)
    /\ loading' = FALSE
    /\ dashError' = FALSE
    /\ title' = <<>>
    /\ date' = Today
    /\ content' = <<>>
    /\ cursorPosition' = 0
    /\ status' = ""
    /\ isPublishing' = FALSE
    /\ pastedImage' = NoImage
    /\ FreshModal("")
    /\ debounced' = NoDraft
    /\ debounceTimer' = FALSE
    /\ draftCleared' = FALSE

\* App.logout called by the user
LogOut ==
    /\ auth
    /\ LoggedOut("")
    /\ alertMsg' = ""
    /\ event' = "logout"
    /\ UNCHANGED <<dashId, fetches, deletes, editorId, publishes, backTimers, hostVars,
                   drafts, asyncVars>>

\* the Dashboard's logout button
Logout ==
    /\ currentView = "dashboard"
    /\ LogOut
    /\ UNCHANGED paletteVars

\* Login.handleSubmit with a token, App.handleSetAuth: the Dashboard mounts
\* and its effect starts getPosts
HandleSubmit ==
    /\ ~auth
    /\ dashId < MaxVisits
    /\ Requests < MaxRequests
    /\ auth' = TRUE
    /\ authError' = ""
    /\ loginError' = ""
    /\ dashId' = dashId + 1
    /\ loading' = TRUE
    /\ dashError' = FALSE
    /\ fetches' = Append(fetches, dashId + 1)
    /\ alertMsg' = ""
    /\ event' = "login"
    /\ UNCHANGED <<appVars, deletes, formVars, hostVars, draftVars, imageVars, status,
                   statusTimers, unmountedWrites>>
    /\ UNCHANGED paletteVars

\* the sort of getPosts: latest first, a missing or invalid date last,
\* posts of equal date in the order of the listing
RECURSIVE InsertByKey(_, _)
InsertByKey(p, sorted) ==
    IF sorted = <<>> THEN <<p>>
    ELSE IF DateKey(Head(sorted).date) >= DateKey(p.date)
         THEN <<Head(sorted)>> \o InsertByKey(p, Tail(sorted))
         ELSE <<p>> \o sorted

RECURSIVE SortFetched(_)
SortFetched(list) ==
    IF list = <<>> THEN <<>>
    ELSE InsertByKey(list[Len(list)], SortFetched(SubSeq(list, 1, Len(list) - 1)))

\* getPostContent over the listed files: a file whose read or parse fails
\* is left out
HostListing ==
    LET Held(name) == hostPosts[PathOf(name)].sha # 0 /\ hostPosts[PathOf(name)].parses
        names == SelectSeq(HostNames, Held)
    IN  [i \in 1..Len(names) |->
            [path     |-> PathOf(names[i]),
             fileName |-> names[i],
             sha      |-> hostPosts[PathOf(names[i])].sha,
             date     |-> hostPosts[PathOf(names[i])].date,
             title    |-> hostPosts[PathOf(names[i])].title]]

\* what the host answers to the listing of _posts
Listings == { [status |-> 200, isArray |-> TRUE],
              [status |-> 200, isArray |-> FALSE],
              [status |-> 404, isArray |-> FALSE],
              [status |-> 401, isArray |-> FALSE],
              [status |-> 500, isArray |-> FALSE] }
PlainListings == { [status |-> 200, isArray |-> TRUE], [status |-> 500, isArray |-> FALSE] }

\* mutant: the posts are returned in the order of the listing
GetPostsInListingOrder(listing) ==
    IF listing.status = 200
    THEN [threw |-> 0, posts |-> IF listing.isArray THEN HostListing ELSE <<>>]
    ELSE IF listing.status = 404
         THEN [threw |-> 0, posts |-> <<>>]
         ELSE [threw |-> listing.status, posts |-> <<>>]

\* getPosts: the posts it returns, or the status of the error it throws
GetPosts(listing) ==
    IF listing.status = 200
    THEN [threw |-> 0,
          posts |-> IF listing.isArray THEN SortFetched(HostListing) ELSE <<>>]
    ELSE IF listing.status = 404
         THEN [threw |-> 0, posts |-> <<>>]
         ELSE [threw |-> listing.status, posts |-> <<>>]

ListingEvent(listing) ==
    IF listing.status = 200 THEN (IF listing.isArray THEN "fetchListed" ELSE "fetchNotDirectory")
    ELSE IF listing.status = 404 THEN "fetchNotFound"
    ELSE IF listing.status = 401 THEN "fetchUnauthorized"
    ELSE "fetchFailed"

\* getPosts of a Dashboard settles and fetchPosts resumes: setPosts on
\* success; on a 401 the Bad credentials message and logout, which React
\* either batches into one render or renders one by one; on another error
\* the Dashboard's error message; setLoading(false) in every case
FetchSettled(listings) ==
    /\ \E i \in 1..Len(fetches), listing \in listings :
          LET mounted == auth /\ currentView = "dashboard" /\ fetches[i] = dashId
              result == GetPosts(listing)
          IN  /\ fetches' = RemoveAt(fetches, i)
              /\ event' = ListingEvent(listing)
              /\ IF result.threw = 401
                 THEN /\ \E batched \in BOOLEAN :
                            LoggedOut(IF batched THEN "" ELSE BadCredentials)
                      /\ unmountedWrites' = unmountedWrites \cup {"setLoading"}
                      /\ UNCHANGED <<dashId, deletes, editorId, publishes, backTimers, hostVars,
                                     drafts, modalMounted, hostUploads, statusTimers,
                                     pendingEncode, aiPending, dragState, moveListener,
                                     upListener, buttonHeld, pointer>>
                 ELSE /\ posts' = (IF result.threw = 0 THEN result.posts ELSE posts)
                      /\ dashError' = (IF result.threw # 0 /\ mounted THEN TRUE ELSE dashError)
                      /\ loading' = (IF mounted THEN FALSE ELSE loading)
                      /\ unmountedWrites' = (IF mounted THEN unmountedWrites
                                             ELSE unmountedWrites \cup {"setLoading"})
                      /\ UNCHANGED <<currentView, editingPost, dashId, deletes, formVars,
                                     hostVars, imageVars, status, statusTimers, draftVars,
                                     authVars>>
    /\ alertMsg' = ""
    /\ UNCHANGED paletteVars

(***************************************************************************)
(* Publishing and deleting posts                                           *)
(***************************************************************************)
SetTitle ==
    /\ currentView = "editor"
    /\ \E t \in Titles :
          /\ title' = t
          /\ AutosaveOnEdit([FormState EXCEPT !.title = t])
    /\ alertMsg' = ""
    /\ event' = "setTitle"
    /\ UNCHANGED <<appVars, dashVars, editorId, date, isPublishing, publishes, backTimers,
                   hostVars, imageVars, status, statusTimers, unmountedWrites>>
    /\ UNCHANGED authVars
    /\ UNCHANGED paletteVars

SetDate ==
    /\ currentView = "editor"
    /\ \E d \in Dates :
          /\ date' = d
          /\ AutosaveOnEdit([FormState EXCEPT !.date = d])
    /\ alertMsg' = ""
    /\ event' = "setDate"
    /\ UNCHANGED <<appVars, dashVars, editorId, title, isPublishing, publishes, backTimers,
                   hostVars, imageVars, status, statusTimers, unmountedWrites>>
    /\ UNCHANGED authVars
    /\ UNCHANGED paletteVars

\* what the content field can hold after typing
Contents == { <<>>, <<"text">>, <<"text", "more">> }

\* typing in the content field, which keeps the focus while the image
\* modal is shown
SetContent ==
    /\ currentView = "editor"
    /\ \E c \in Contents :
          /\ c # content
          /\ content' = c
          /\ AutosaveOnEdit([FormState EXCEPT !.content = c])
    /\ alertMsg' = ""
    /\ event' = "setContent"
    /\ UNCHANGED <<pastedImage, modalMounted, cursorPosition, hostUploads, imageSrc,
                   geomVars, fieldVars, resizeVars, procVars, aiVars, dragVars,
                   status, statusTimers, unmountedWrites, pointer>>
    /\ UNCHANGED <<appVars, dashVars, formVars, hostVars, authVars, paletteVars>>

\* the debounce timer fires 1500 ms after the last setFormState: the
\* debounced form catches up and the autosave effect stores it while the
\* form is dirty
DebounceFire ==
    /\ currentView = "editor"
    /\ debounceTimer
    /\ debounceTimer' = FALSE
    /\ debounced' = FormState
    /\ drafts' = (IF IsDirty THEN [drafts EXCEPT ![DraftKey(editingPost)] = FormState]
                  ELSE drafts)
    /\ alertMsg' = ""
    /\ event' = "autosave"
    /\ UNCHANGED <<appVars, dashVars, formVars, hostVars, draftCleared, imageVars, status,
                   statusTimers, unmountedWrites>>
    /\ UNCHANGED authVars
    /\ UNCHANGED paletteVars

\* the post handlePublish builds: the file name is the edited post's, or
\* for a new post made of the date and the slug; the sha is the edited
\* post's when the path is unchanged
NewPost(post, d, t) ==
    LET name == IF post # NoPost THEN post.fileName ELSE FileNameOf(d, t)
    IN  [path     |-> PathOf(name),
         fileName |-> name,
         sha      |-> (IF post # NoPost /\ post.path = PathOf(name) THEN post.sha ELSE 0),
         date     |-> d,
         title    |-> t]

\* handlePublish up to its await
StartPublish(publishedValues) ==
    /\ currentView = "editor"
    /\ \E published \in publishedValues :
          \/ /\ title = <<>>
             /\ alertMsg' = "Title is required."
             /\ event' = "publishBlocked"
             /\ UNCHANGED <<status, isPublishing, publishes>>
          \/ /\ title # <<>>
             /\ Len(publishes) < MaxInFlight
             /\ Len(deletes) + Len(fetches) < MaxRequests
             /\ statusTimers < MaxInFlight
             /\ nextSha + Len(publishes) <= MaxSha
             /\ isPublishing' = TRUE
             /\ status' = (IF published THEN "Publishing post..." ELSE "Saving draft...")
             /\ publishes' = Append(publishes,
                                    [editor    |-> editorId,
                                     post      |-> editingPost,
                                     newPost   |-> NewPost(editingPost, date, title),
                                     published |-> published])
             /\ alertMsg' = ""
             /\ event' = "publishStarted"
    /\ UNCHANGED <<appVars, dashVars, editorId, title, date, backTimers, hostVars, imageVars,
                   statusTimers, unmountedWrites>>
    /\ UNCHANGED draftVars
    /\ UNCHANGED authVars

\* the Save Draft and Publish buttons, enabled while the form is dirty and
\* no save is in progress
HandlePublish ==
    /\ ~isPublishing
    /\ IsDirty
    /\ StartPublish(BOOLEAN)
    /\ UNCHANGED paletteVars

(***************************************************************************)
(* The command palette                                                     *)
(***************************************************************************)
\* The palette is modelled by its handlers, as a component that is rendered
\* while isOpen holds. (CommandPalette returns null while closed, before its
\* last useMemo, so the render that opens it runs one hook more than the
\* render before; what React makes of that is outside this model.)
\* App.commands: the ids of the commands of a view, in the order listed
Commands(view) == IF view = "editor" THEN <<"save", "publish", "dashboard", "logout">>
                  ELSE <<"new_post", "logout">>

CommandName(id) ==
    CASE id = "save"      -> <<"S", "a", "v", "e", " ", "D", "r", "a", "f", "t">>
      [] id = "publish"   -> <<"P", "u", "b", "l", "i", "s", "h", " ", "P", "o", "s", "t">>
      [] id = "dashboard" -> <<"G", "o", " ", "t", "o", " ", "D", "a", "s", "h", "b", "o",
                               "a", "r", "d">>
      [] id = "new_post"  -> <<"C", "r", "e", "a", "t", "e", " ", "N", "e", "w", " ", "P",
                               "o", "s", "t">>
      [] id = "logout"    -> <<"L", "o", "g", "o", "u", "t">>

\* texts typed into the search input
Searches == { <<>>, <<"p", "o", "s", "t">>, <<"L", "O", "G">>, <<"z">> }

\* filteredCommands
FilteredCommands ==
    LET Matches(id) == IncludesText(LowerCase(CommandName(id)), LowerCase(search))
    IN  IF search = <<>> THEN Commands(currentView)
        ELSE SelectSeq(Commands(currentView), Matches)

\* Ctrl+K or Cmd+K; the [isOpen] effect resets the palette when it opens
TogglePalette ==
    /\ auth
    /\ isCommandPaletteOpen' = ~isCommandPaletteOpen
    /\ IF isCommandPaletteOpen
       THEN UNCHANGED <<search, selectedIndex>>
       ELSE /\ search' = <<>>
            /\ selectedIndex' = Num(0)
    /\ alertMsg' = ""
    /\ event' = "togglePalette"
    /\ UNCHANGED <<appVars, dashVars, formVars, hostVars, draftVars, authVars, imageVars,
                   status, statusTimers, unmountedWrites>>

\* Escape, or a click on the backdrop
ClosePalette ==
    /\ auth
    /\ isCommandPaletteOpen
    /\ isCommandPaletteOpen' = FALSE
    /\ alertMsg' = ""
    /\ event' = "closePalette"
    /\ UNCHANGED <<search, selectedIndex>>
    /\ UNCHANGED <<appVars, dashVars, formVars, hostVars, draftVars, authVars, imageVars,
                   status, statusTimers, unmountedWrites>>

\* the search input's onChange
SetSearch ==
    /\ auth
    /\ isCommandPaletteOpen
    /\ \E text \in Searches : search' = text
    /\ selectedIndex' = Num(0)
    /\ alertMsg' = ""
    /\ event' = "setSearch"
    /\ UNCHANGED isCommandPaletteOpen
    /\ UNCHANGED <<appVars, dashVars, formVars, hostVars, draftVars, authVars, imageVars,
                   status, statusTimers, unmountedWrites>>

\* JavaScript's a % n for a >= 0: NaN when a is NaN or n is 0
Remainder(a, n) == IF a.nan \/ n = 0 THEN NaN ELSE Num(a.val % n)
Plus(a, k) == IF a.nan THEN NaN ELSE Num(a.val + k)

\* handleKeyDown, ArrowDown and ArrowUp
ArrowKey ==
    /\ auth
    /\ isCommandPaletteOpen
    /\ \E down \in BOOLEAN :
          LET n == Len(FilteredCommands)
          IN  /\ selectedIndex' = (IF down THEN Remainder(Plus(selectedIndex, 1), n)
                                   ELSE Remainder(Plus(selectedIndex, n - 1), n))
              /\ event' = (IF down THEN "arrowDown" ELSE "arrowUp")
    /\ alertMsg' = ""
    /\ UNCHANGED <<isCommandPaletteOpen, search>>
    /\ UNCHANGED <<appVars, dashVars, formVars, hostVars, draftVars, authVars, imageVars,
                   status, statusTimers, unmountedWrites>>

\* the action of a command
RunCommand(id) ==
    \/ id = "save" /\ StartPublish({FALSE})
    \/ id = "publish" /\ StartPublish({TRUE})
    \/ id = "dashboard" /\ GoBack
    \/ id = "new_post" /\ OpenNewPost
    \/ id = "logout" /\ LogOut

\* handleKeyDown, Enter: the command at selectedIndex runs and the palette
\* closes; nothing happens when there is no command at that index
PaletteEnter ==
    /\ auth
    /\ isCommandPaletteOpen
    /\ ~selectedIndex.nan
    /\ selectedIndex.val < Len(FilteredCommands)
    /\ RunCommand(FilteredCommands[selectedIndex.val + 1])
    /\ isCommandPaletteOpen' = FALSE
    /\ UNCHANGED <<search, selectedIndex>>

\* a click on a listed command
PaletteClick ==
    /\ auth
    /\ isCommandPaletteOpen
    /\ \E k \in 1..Len(FilteredCommands) : RunCommand(FilteredCommands[k])
    /\ isCommandPaletteOpen' = FALSE
    /\ UNCHANGED <<search, selectedIndex>>

\* the updater handlePublish hands to setPosts
PutPost(list, post, newPost) ==
    LET existing == { i \in 1..Len(list) : post # NoPost /\ list[i].path = post.path }
    IN  IF existing # {}
        THEN [list EXCEPT ![CHOOSE i \in existing : \A j \in existing : i <= j] = newPost]
        ELSE SortByDate(<<newPost>> \o list)

\* createOrUpdatePost settles and handlePublish resumes.  The host takes a
\* write whose sha names the file's current revision (none for a path it
\* does not hold) and gives the file a new one.
PublishSettled ==
    /\ \E i \in 1..Len(publishes), reachable \in BOOLEAN :
          LET job == publishes[i]
              accepted == reachable /\ job.newPost.sha = hostPosts[job.newPost.path].sha
              mounted == currentView = "editor" /\ editorId = job.editor
          IN  /\ publishes' = RemoveAt(publishes, i)
              /\ IF accepted
                 THEN /\ hostPosts' = [hostPosts EXCEPT ![job.newPost.path] =
                                          [sha    |-> nextSha,
                                           date   |-> job.newPost.date,
                                           title  |-> job.newPost.title,
                                           parses |-> TRUE]]
                      /\ nextSha' = nextSha + 1
                      /\ posts' = PutPost(posts, job.post, job.newPost)
                      /\ backTimers' = backTimers + 1
                      /\ drafts' = [drafts EXCEPT ![DraftKey(job.post)] = NoDraft]
                      /\ draftCleared' = mounted
                      /\ event' = "publishDone"
                 ELSE /\ UNCHANGED <<hostVars, posts, backTimers, drafts, draftCleared>>
                      /\ event' = "publishFailed"
              /\ IF mounted
                 THEN /\ status' = (IF ~accepted THEN "Error: request failed"
                                    ELSE IF job.published THEN "Published successfully!"
                                    ELSE "Draft saved!")
                      /\ isPublishing' = FALSE
                      /\ UNCHANGED unmountedWrites
                 ELSE /\ unmountedWrites' = unmountedWrites \cup {"setIsPublishing"}
                      /\ UNCHANGED <<status, isPublishing>>
    /\ statusTimers' = statusTimers + 1
    /\ alertMsg' = ""
    /\ UNCHANGED <<currentView, editingPost, dashVars, editorId, title, date, imageVars>>
    /\ UNCHANGED <<debounced, debounceTimer>>
    /\ UNCHANGED authVars
    /\ UNCHANGED paletteVars

\* Dashboard.handleDelete up to its await, the dialog confirmed; deletePost
\* throws at once for a post without a sha
HandleDelete ==
    /\ auth
    /\ currentView = "dashboard"
    /\ ~loading
    /\ ~dashError
    /\ \E i \in 1..Len(posts) :
          \/ /\ posts[i].sha = 0
             /\ alertMsg' = "Failed to delete post."
             /\ event' = "deleteFailed"
             /\ UNCHANGED deletes
          \/ /\ posts[i].sha # 0
             /\ Len(deletes) < MaxInFlight
             /\ Len(publishes) + Len(fetches) < MaxRequests
             /\ deletes' = Append(deletes, [post |-> posts[i], posts |-> posts])
             /\ alertMsg' = ""
             /\ event' = "deleteStarted"
    /\ UNCHANGED <<appVars, dashId, loading, dashError, fetches, formVars, hostVars,
                   imageVars, status, statusTimers, unmountedWrites>>
    /\ UNCHANGED draftVars
    /\ UNCHANGED authVars
    /\ UNCHANGED paletteVars

\* deleteFile settles and handleDelete resumes with the list it closed over
DeleteSettled ==
    /\ \E i \in 1..Len(deletes), reachable \in BOOLEAN :
          LET job == deletes[i]
              accepted == reachable /\ job.post.sha = hostPosts[job.post.path].sha
              Kept(p) == p.path # job.post.path
          IN  /\ deletes' = RemoveAt(deletes, i)
              /\ IF accepted
                 THEN /\ hostPosts' = [hostPosts EXCEPT ![job.post.path] = NoFile]
                      /\ posts' = SelectSeq(job.posts, Kept)
                      /\ alertMsg' = ""
                      /\ event' = "deleteDone"
                 ELSE /\ UNCHANGED <<hostPosts, posts>>
                      /\ alertMsg' = "Failed to delete post."
                      /\ event' = "deleteFailed"
    /\ UNCHANGED <<currentView, editingPost, dashId, loading, dashError, fetches, formVars,
                   nextSha, imageVars, status, statusTimers, unmountedWrites>>
    /\ UNCHANGED draftVars
    /\ UNCHANGED authVars
    /\ UNCHANGED paletteVars

(***************************************************************************)
(* Specifications                                                          *)
(***************************************************************************)
\* the modal with every handler, coarse pointer input
Next ==
    \/ Paste(FlowImages)
    \/ ReaderLoad
    \/ OnImageLoad
    \/ Cancel
    \/ HandleMouseDown(FlowHandles)
    \/ HandleMouseMove(FlowDeltas)
    \/ HandleMouseUp
    \/ SetAlt
    \/ HandleUpload
    \/ ToBlobCallback
    \/ UploadSettled
    \/ StatusTimeout
    \/ HandleGenerateAltText
    \/ AiSettled

Spec == Init /\ [][Next]_vars

\* the crop geometry: every handle, the full range of pointer deltas
NextCrop ==
    \/ Paste(Images)
    \/ ReaderLoad
    \/ OnImageLoad
    \/ HandleMouseDown(Handles)
    \/ HandleMouseMove(Deltas)
    \/ HandleMouseUp

SpecCrop == Init /\ [][NextCrop]_vars

\* the output size fields and the render step
NextResize ==
    \/ Paste(Images)
    \/ ReaderLoad
    \/ OnImageLoad
    \/ SetAlt
    \/ SetKeepAspectRatio
    \/ HandleResizeChange(ResizeEntries)
    \/ HandleUpload

SpecResize == Init /\ [][NextResize]_vars

\* the aspect lock on crops that were dragged
NextAspect ==
    \/ Paste(OutputImages)
    \/ ReaderLoad
    \/ OnImageLoad
    \/ HandleMouseDown(FlowHandles)
    \/ HandleMouseMove(FlowDeltas)
    \/ HandleMouseUp
    \/ SetKeepAspectRatio
    \/ HandleResizeChange(OutputEntries \cup DefaultEntries)

SpecAspect == Init /\ [][NextAspect]_vars

\* the source rectangle of the render step on crops that were dragged
NextSource ==
    \/ Paste(OutputImages)
    \/ ReaderLoad
    \/ OnImageLoad
    \/ HandleMouseDown(FlowHandles)
    \/ HandleMouseMove(FlowDeltas)
    \/ HandleMouseUp
    \/ SetAlt
    \/ HandleUpload

SpecSource == Init /\ [][NextSource]_vars

\* writing, saving and deleting posts, no image pasted
NextPublish ==
    \/ SetTitle
    \/ SetDate
    \/ HandlePublish
    \/ PublishSettled
    \/ StatusTimeout
    \/ BackTimer
    \/ HandleBackToDashboard
    \/ HandleNewPost
    \/ HandleEditPost
    \/ HandleDelete
    \/ DeleteSettled
    \/ FetchSettled(PlainListings)

SpecPublish == Init /\ [][NextPublish]_vars

\* the form, its autosaved draft and the saves that clear it
NextDraft ==
    \/ SetTitle
    \/ SetDate
    \/ DebounceFire
    \/ HandlePublish
    \/ PublishSettled
    \/ StatusTimeout
    \/ BackTimer
    \/ HandleBackToDashboard
    \/ HandleNewPost

SpecDraft == Init /\ [][NextDraft]_vars

\* the post list fetched from repositories of every content, with every
\* answer of the host to the listing
NextFetch ==
    \/ FetchSettled(Listings)
    \/ HandleNewPost
    \/ HandleBackToDashboard
    \/ HandleSubmit

SpecFetch == InitFetch /\ [][NextFetch]_vars

\* posts deleted from the Dashboard's list
NextDelete ==
    \/ FetchSettled(PlainListings)
    \/ HandleDelete
    \/ DeleteSettled

SpecDelete == InitFetch /\ [][NextDelete]_vars

\* logging out while requests are in flight
NextLogout ==
    \/ FetchSettled(PlainListings)
    \/ HandleDelete
    \/ DeleteSettled
    \/ Logout
    \/ HandleSubmit

SpecLogout == InitFetch /\ [][NextLogout]_vars

\* saves started from the buttons and from the palette
NextWrites ==
    \/ SetTitle
    \/ HandlePublish
    \/ PublishSettled
    \/ StatusTimeout
    \/ TogglePalette
    \/ ArrowKey
    \/ PaletteEnter

SpecWrites == Init /\ [][NextWrites]_vars

\* the palette: searching, moving the selection, running commands
NextPalette ==
    \/ TogglePalette
    \/ ClosePalette
    \/ SetSearch
    \/ ArrowKey
    \/ PaletteEnter
    \/ PaletteClick
    \/ FetchSettled(PlainListings)
    \/ HandleSubmit

SpecPalette == Init /\ [][NextPalette]_vars

\* the required fields, the upload target and the emission to the host
NextUpload ==
    \/ Paste(FlowImages)
    \/ ReaderLoad
    \/ OnImageLoad
    \/ Cancel
    \/ SetAlt
    \/ SetFileName
    \/ SetUploadPathOption
    \/ SetQuality
    \/ HandleUpload
    \/ ToBlobCallback
    \/ UploadSettled

SpecUpload == Init /\ [][NextUpload]_vars

\* an image uploaded while the content is being typed
NextInsert ==
    \/ Paste(FlowImages)
    \/ ReaderLoad
    \/ OnImageLoad
    \/ Cancel
    \/ SetAlt
    \/ HandleUpload
    \/ ToBlobCallback
    \/ UploadSettled
    \/ SetContent

SpecInsert == Init /\ [][NextInsert]_vars

(***************************************************************************)
(* Claims                                                                  *)
(***************************************************************************)
Loaded == ModalOpen /\ originalDims.width > 0

\* C1: once the image has loaded, after any sequence of drag gestures the
\* crop lies inside the ViewBox: x >= 0, y >= 0, x + width <= ViewBox.width
\* and y + height <= ViewBox.height.
CropInsideViewBox ==
    Loaded => /\ crop.x >= 0
              /\ crop.y >= 0
              /\ crop.x + crop.width <= viewBox.width
              /\ crop.y + crop.height <= viewBox.height

\* an 'se' drag far past the bottom-right corner: the proposal spills on both
\* axes and the clamp leaves the crop covering the whole ViewBox
CropClampedToWholeViewBox ==
    /\ Loaded
    /\ event = "mouseMove"
    /\ dragState # NoDrag
    /\ dragState.type = "se"
    /\ crop = [x |-> 0, y |-> 0, width |-> viewBox.width, height |-> viewBox.height]
    /\ dragState.initialCrop.x > 0

\* C2 as stated: once the image has loaded, the crop's width and height are
\* both at least 20 display pixels, the initial crop included.
CropAtLeastMinSize ==
    Loaded => crop.width >= 20 * Unit /\ crop.height >= 20 * Unit

\* C2 as amended: the crop is either the untouched initial crop (90% of each
\* ViewBox axis) or, after a drag update, at least min(20, ViewBox extent)
\* pixels on each axis: the bounds clamp takes a dimension below 20 only
\* when the ViewBox itself is smaller than 20 pixels on that axis.
CropAtLeastMinSizeOrViewBox ==
    Loaded =>
        \/ /\ crop.width * 10 = viewBox.width * 9
           /\ crop.height * 10 = viewBox.height * 9
           /\ crop.x * 20 = viewBox.width
           /\ crop.y * 20 = viewBox.height
        \/ /\ crop.width >= (IF viewBox.width < 20 * Unit THEN viewBox.width ELSE 20 * Unit)
           /\ crop.height >= (IF viewBox.height < 20 * Unit THEN viewBox.height ELSE 20 * Unit)

\* a drag update in a ViewBox less than 20 pixels high: the floor raised the
\* height to 20 and the bounds clamp cut it back to the ViewBox height
CropCutBelowMinSize ==
    /\ Loaded
    /\ event = "mouseMove"
    /\ viewBox.height < 20 * Unit
    /\ crop.height = viewBox.height
    /\ crop.width >= 20 * Unit

\* C3: at most one upload started from the modal is in flight, from the
\* upload action that passes validation until the host's write has finished.
AtMostOneUploadInFlight ==
    (IF pendingEncode # NoJob THEN 1 ELSE 0) + Len(hostUploads) <= 1

\* C4: an upload action that passes validation and encodes successfully
\* emits onUpload exactly once, carrying the alt text and prefix + filename
\* of the action; a blocked action or an encoding without a blob emits nothing.
EmitsOncePerEncodedUpload ==
    [][ /\ event' = "uploadStarted" =>
              /\ alt # "" /\ fileName # ""
              /\ pendingEncode = NoJob
              /\ pendingEncode'.alt = alt
              /\ pendingEncode'.fullPath =
                     (IF uploadPathOption = "post" THEN "assets/img/posts/untitled/"
                                                   ELSE "assets/img/") \o fileName
              /\ hostUploads' = hostUploads
        /\ event' = "encoded" =>
              /\ pendingEncode # NoJob
              /\ pendingEncode' = NoJob
              /\ Len(hostUploads') = Len(hostUploads) + 1
              /\ SubSeq(hostUploads', 1, Len(hostUploads)) = hostUploads
              /\ hostUploads'[Len(hostUploads')].alt = pendingEncode.alt
              /\ hostUploads'[Len(hostUploads')].fullPath = pendingEncode.fullPath
        /\ event' \in {"uploadBlocked", "uploadNoImage", "uploadNoContext", "encodeFailed"} =>
              /\ hostUploads' = hostUploads
              /\ pendingEncode' = NoJob
        /\ Len(hostUploads') > Len(hostUploads) => event' = "encoded"
      ]_vars

\* an emission to the shared folder, right after the encode
EmittedToSharedFolder ==
    /\ event = "encoded"
    /\ hostUploads # <<>>
    /\ hostUploads[Len(hostUploads)] = [alt |-> "a cat", fullPath |-> "assets/img/image-1.png",
                                        content |-> <<"text">>, cursorPosition |-> 1]

\* C5: the output width and height used for rendering never exceed the
\* source image's natural width and height, whatever the crop and the text
\* of the width and height fields.
OutputWithinNatural ==
    (ModalOpen /\ canvas.drawn) =>
        /\ canvas.width <= pastedImage.naturalWidth
        /\ canvas.height <= pastedImage.naturalHeight

\* a render with an oversized width entry and an empty height entry
OversizedEntryClamped ==
    /\ event = "uploadStarted"
    /\ Loaded
    /\ resizeWidth = <<"9", "9", "9", "9">>
    /\ resizeHeight = <<>>
    /\ canvas.width = pastedImage.naturalWidth
    /\ canvas.height > 0

\* C6: with alt text or filename empty the upload action is blocked with a
\* message: nothing is rendered or emitted, isProcessing stays false and the
\* modal's state is unchanged.
BlockedUploadChangesNothing ==
    [][ /\ (event' = "uploadBlocked") =>
              /\ alertMsg' = "Alt text and filename are required."
              /\ ~isProcessing /\ ~isProcessing'
              /\ ModalOpen'
              /\ UNCHANGED <<crop, viewBox, originalDims, resizeWidth, resizeHeight,
                             keepAspectRatio, alt, fileName, uploadPathOption, quality,
                             canvas, pendingEncode, hostUploads, content, status>>
        /\ (event' \in {"uploadStarted", "uploadNoImage", "uploadNoContext"}) =>
              (alt # "" /\ fileName # "")
      ]_vars

\* a blocked upload on a loaded image whose filename was cleared
UploadBlockedOnEmptyFileName ==
    /\ event = "uploadBlocked"
    /\ Loaded
    /\ alt = "a cat"
    /\ fileName = ""
    /\ quality = 10

\* C7: when the drawing surface is unavailable or encoding yields no blob,
\* an error is reported to the user, nothing is emitted, the modal stays
\* open and isProcessing is false again.
RenderFailureReported ==
    event \in {"uploadNoContext", "encodeFailed"} =>
        /\ alertMsg # ""
        /\ ModalOpen
        /\ ~isProcessing

\* C8: the move and up listeners are attached exactly while a gesture is in
\* progress: pointer-down attaches both, the next pointer-up detaches both
\* and clears the drag state, also when the modal was dismissed meanwhile.
ListenersPaired ==
    /\ buttonHeld <=> moveListener
    /\ buttonHeld <=> upListener
    /\ buttonHeld <=> (dragState # NoDrag)

\* the pointer-up of a gesture during which the modal was dismissed
PointerUpAfterDismissal ==
    /\ event = "mouseUp"
    /\ modalMounted
    /\ ~ModalOpen
    /\ "setCrop" \in unmountedWrites

\* C9: an AI alt-text response that arrives after the modal has closed is
\* discarded: no state setter of the modal runs and nothing is shown.
NoAiWriteAfterClose ==
    /\ unmountedWrites \cap {"setAlt", "setIsAiLoading"} = {}
    /\ (event \in {"aiDone", "aiFailed"} /\ alertMsg # "") => ModalOpen

\* C10: a failed AI request leaves the alt text and every other field as
\* they were, returns the AI-loading flag to false and touches nothing the
\* upload depends on; requesting a suggestion changes only the loading flag.
AiFailureHarmless ==
    [][ /\ (event' = "aiFailed") =>
              /\ ~isAiLoading' /\ ~aiPending'
              /\ UNCHANGED <<alt, fileName, uploadPathOption, quality, crop, viewBox,
                             originalDims, resizeWidth, resizeHeight, keepAspectRatio,
                             imageSrc, isProcessing, canvas, pendingEncode, hostUploads,
                             pastedImage, content>>
        /\ (event' = "aiRequested") =>
              UNCHANGED <<alt, fileName, uploadPathOption, quality, crop, viewBox,
                          originalDims, resizeWidth, resizeHeight, keepAspectRatio,
                          imageSrc, isProcessing, canvas, pendingEncode, hostUploads,
                          pastedImage, content>>
      ]_vars

\* a failure that arrives while the modal is open and holds manually entered
\* alt text
AiFailedWithManualAlt ==
    /\ event = "aiFailed"
    /\ ModalOpen
    /\ alt = "a cat"
    /\ ~isAiLoading
    /\ ~isProcessing

\* C11: within a gesture the crop after a move event depends only on the
\* drag-start snapshot, the handle and the pointer position of that event:
\* however many move events came before it, and wherever they were, the crop
\* is the one a single update from the snapshot to that position gives.
CropDependsOnSnapshotAndPointer ==
    (Loaded /\ event = "mouseMove" /\ dragState # NoDrag) =>
        crop = UpdateDrag(dragState.type, dragState.initialCrop,
                          Px(pointer.x - dragState.startX),
                          Px(pointer.y - dragState.startY),
                          viewBox.width, viewBox.height)

\* a move event of the second gesture that left the pointer 20 pixels left
\* of where the 'e' handle was grabbed: the crop is 20 pixels narrower than
\* the snapshot
NarrowedFromSnapshot ==
    /\ Loaded
    /\ event = "mouseMove"
    /\ gestures = 2
    /\ dragState # NoDrag
    /\ dragState.type = "e"
    /\ pointer = [x |-> 0 - 20, y |-> 20]
    /\ crop.width = dragState.initialCrop.width - 20 * Unit
    /\ crop.x = dragState.initialCrop.x

\* C12: during a drag on a handle containing 'n' the bottom edge y + height
\* stays where it was at drag start, and during a drag on a handle
\* containing 'w' the right edge x + width does, for every pointer delta.
OppositeEdgeAnchored ==
    (Loaded /\ event = "mouseMove" /\ dragState # NoDrag) =>
        /\ dragState.type \in {"n", "ne", "nw"} =>
               crop.y + crop.height =
                   dragState.initialCrop.y + dragState.initialCrop.height
        /\ dragState.type \in {"w", "nw", "sw"} =>
               crop.x + crop.width =
                   dragState.initialCrop.x + dragState.initialCrop.width

\* C13: a drag on 's', 'e' or 'se' changes only the height and/or the
\* width: x and y stay at their drag-start values for every pointer delta.
NearCornerStaysPut ==
    (Loaded /\ event = "mouseMove" /\ dragState # NoDrag
            /\ dragState.type \in {"s", "e", "se"}) =>
        /\ crop.x = dragState.initialCrop.x
        /\ crop.y = dragState.initialCrop.y

\* C14: a drag on the 'move' handle leaves the crop's width and height at
\* their drag-start values for every pointer delta.
MoveKeepsSize ==
    (Loaded /\ event = "mouseMove" /\ dragState # NoDrag /\ dragState.type = "move") =>
        /\ crop.width = dragState.initialCrop.width
        /\ crop.height = dragState.initialCrop.height

\* a field text that is a positive integer in decimal notation
PositiveInteger(text) ==
    /\ text # <<>>
    /\ \A i \in 1..Len(text) : text[i] \in {"0", "1", "2", "3", "4", "5", "6", "7", "8", "9"}
    /\ \E i \in 1..Len(text) : text[i] # "0"

\* C15: with the aspect lock enabled, entering a positive integer in one
\* size field sets the other to round(value * croppedOther / croppedThis),
\* the ratio being that of the crop scaled to source pixels; with the lock
\* disabled, or for an entry that is empty, not a number or not positive,
\* the other field keeps its text.
AspectLockFollowsCrop ==
    [][ /\ (event' = "resizeWidth" /\ Loaded) =>
              IF keepAspectRatio /\ PositiveInteger(resizeWidth')
              THEN resizeHeight' =
                       ToStr((2 * ParseInt(resizeWidth').val * (crop.height * viewBox.scaleNum)
                                 + crop.width * viewBox.scaleNum)
                             \div (2 * (crop.width * viewBox.scaleNum)))
              ELSE resizeHeight' = resizeHeight
        /\ (event' = "resizeHeight" /\ Loaded) =>
              IF keepAspectRatio /\ PositiveInteger(resizeHeight')
              THEN resizeWidth' =
                       ToStr((2 * ParseInt(resizeHeight').val * (crop.width * viewBox.scaleNum)
                                 + crop.height * viewBox.scaleNum)
                             \div (2 * (crop.height * viewBox.scaleNum)))
              ELSE resizeWidth' = resizeWidth
      ]_vars

\* a width of 7 entered under the lock on a dragged crop whose ratio is not
\* the source's: the height follows the crop, not the source
LockedToDraggedCrop ==
    /\ Loaded
    /\ event = "resizeWidth"
    /\ keepAspectRatio
    /\ resizeWidth = <<"7">>
    /\ crop.width * pastedImage.naturalHeight # crop.height * pastedImage.naturalWidth
    /\ resizeHeight # ToStr((2 * 7 * pastedImage.naturalHeight + pastedImage.naturalWidth)
                            \div (2 * pastedImage.naturalWidth))

\* the default output size: the crop scaled to source pixels and rounded
DefaultWidth ==
    (2 * crop.width * viewBox.scaleNum + Unit * viewBox.scaleDen)
        \div (2 * Unit * viewBox.scaleDen)
DefaultHeight ==
    (2 * crop.height * viewBox.scaleNum + Unit * viewBox.scaleDen)
        \div (2 * Unit * viewBox.scaleDen)

\* the width field was just set back to the default width under the lock
WidthRestored ==
    /\ Loaded
    /\ event = "resizeWidth"
    /\ keepAspectRatio
    /\ resizeWidth = ToStr(DefaultWidth)

\* C16 as stated: under the lock and with the crop fixed, setting the width
\* back to its default W0 after any other entries leaves the height within
\* 1 pixel of the default H0.
RoundTripWithinOnePixel ==
    WidthRestored =>
        /\ ParseInt(resizeHeight).val - DefaultHeight <= 1
        /\ DefaultHeight - ParseInt(resizeHeight).val <= 1

\* C16 as amended: setting the width back to W0 leaves the height at
\* round(W0 * cropHeight / cropWidth) whatever was entered before; that is
\* within 1 pixel of H0 when the crop is no taller than it is wide.
RoundTripFollowsCropRatio ==
    WidthRestored =>
        /\ resizeHeight = ToStr((2 * DefaultWidth * crop.height + crop.width)
                                \div (2 * crop.width))
        /\ crop.height <= crop.width =>
               /\ ParseInt(resizeHeight).val - DefaultHeight <= 1
               /\ DefaultHeight - ParseInt(resizeHeight).val <= 1

\* the width restored on a crop wider than tall: the height comes back one
\* pixel off its default
RoundTripOffByOne ==
    /\ WidthRestored
    /\ crop.height <= crop.width
    /\ ParseInt(resizeHeight).val = DefaultHeight + 1

\* C17: the source rectangle handed to drawImage lies within the source
\* image: sourceX + sourceWidth <= natural width and sourceY + sourceHeight
\* <= natural height, for every crop inside the ViewBox.
SourceRectWithinNatural ==
    (ModalOpen /\ canvas.drawn) =>
        /\ canvas.sourceX >= 0
        /\ canvas.sourceY >= 0
        /\ canvas.sourceX + canvas.sourceWidth <= pastedImage.naturalWidth
        /\ canvas.sourceY + canvas.sourceHeight <= pastedImage.naturalHeight

\* the distance between two lengths
Dist(a, b) == IF a > b THEN a - b ELSE b - a

\* C18: right after the image has loaded the ViewBox fits inside the
\* container and has the source's aspect ratio (scale * ViewBox.width is
\* the natural width, scale * ViewBox.height the natural height), and the
\* crop is the centred rectangle over 90% of each ViewBox axis: x and y are
\* 5% and width and height 90% of the ViewBox's, within 1 pixel.
InitialCropCentred ==
    event = "imageLoad" =>
        /\ viewBox.width <= 60 * Unit
        /\ viewBox.height <= 40 * Unit
        /\ viewBox.width * viewBox.scaleNum
               = pastedImage.naturalWidth * Unit * viewBox.scaleDen
        /\ viewBox.height * viewBox.scaleNum
               = pastedImage.naturalHeight * Unit * viewBox.scaleDen
        /\ Dist(20 * crop.x, viewBox.width) <= 20 * Unit
        /\ Dist(20 * crop.y, viewBox.height) <= 20 * Unit
        /\ Dist(10 * crop.width, 9 * viewBox.width) <= 10 * Unit
        /\ Dist(10 * crop.height, 9 * viewBox.height) <= 10 * Unit

\* the 1000x800 source: shown 50x40, its initial crop is 45x36 at (2.5, 2)
LoadedThousandByEightHundred ==
    /\ event = "imageLoad"
    /\ pastedImage = [naturalWidth |-> 1000, naturalHeight |-> 800]
    /\ viewBox = [width |-> 50 * Unit, height |-> 40 * Unit,
                  scaleNum |-> 800 * Unit, scaleDen |-> 40 * Unit]
    /\ crop = [x |-> 50, y |-> 2 * Unit, width |-> 45 * Unit, height |-> 36 * Unit]

\* C19: when the host's write of an uploaded image fails, the failure is
\* shown as a status message, the editor content stays exactly as it was,
\* and the write is not attempted again: the failed call leaves the writes
\* in flight, and a write only ever starts from the emission of an upload
\* the user started.
FailedWriteReportedNotRetried ==
    [][ /\ (event' = "uploadFailed") =>
              /\ status' = "Image upload failed."
              /\ content' = content
              /\ Len(hostUploads') = Len(hostUploads) - 1
              /\ \E i \in 1..Len(hostUploads) : hostUploads' = RemoveAt(hostUploads, i)
              /\ pendingEncode' = pendingEncode
        /\ (Len(hostUploads') > Len(hostUploads)) =>
              /\ event' = "encoded"
              /\ pendingEncode # NoJob
              /\ Len(hostUploads') = Len(hostUploads) + 1
        /\ (pendingEncode' # NoJob /\ pendingEncode = NoJob) => event' = "uploadStarted"
      ]_vars

\* the only write of an upload has failed: the status says so, the content
\* is the text it was and nothing is in flight
WriteFailedContentUntouched ==
    /\ event = "uploadFailed"
    /\ status = "Image upload failed."
    /\ content = <<"text">>
    /\ hostUploads = <<>>
    /\ pendingEncode = NoJob
    /\ ~ModalOpen

\* C20: after a successful save or publish from the editor, the entry placed
\* in the post list carries the sha the host now holds for that path, so
\* that a later update or delete of the same post is accepted: at the step
\* on which a save succeeds, every list entry at the saved path has the sha
\* of the host's file at that path.
SavedPostCarriesHostSha ==
    [][ \A i \in 1..Len(publishes) :
           (event' = "publishDone" /\ publishes' = RemoveAt(publishes, i)) =>
               \A k \in 1..Len(posts') :
                   posts'[k].path = publishes[i].newPost.path =>
                       posts'[k].sha = hostPosts'[posts'[k].path].sha
      ]_vars

\* C21: after a successful save or publish the stored draft of the open
\* post is cleared and stays cleared until the user edits the form again:
\* while the Editor that saved is shown and no edit has followed the save,
\* no draft is stored under the post's key.
DraftStaysCleared ==
    (currentView = "editor" /\ draftCleared) => drafts[DraftKey(editingPost)] = NoDraft

\* C22: getPosts isolates failures.  When a getPosts call settles: a 404
\* on the listing or an answer that is no directory gives the empty list;
\* any other listing error is thrown on to fetchPosts, which keeps the
\* list and shows the Dashboard's error (logs out on a 401); otherwise the
\* list is exactly the files that were read and parsed, each once and with
\* the host's sha, latest date first, a missing or invalid date counting
\* as 0.
GetPostsIsolatesFailures ==
    [][ \A i \in 1..Len(fetches) :
           (fetches' = RemoveAt(fetches, i)) =>
              LET readable == { p \in Paths : hostPosts[p].sha # 0 /\ hostPosts[p].parses }
                  Key(d) == IF d = MissingDate \/ d = InvalidDate THEN 0 ELSE d
              IN  /\ (event' \in {"fetchNotFound", "fetchNotDirectory"}) => posts' = <<>>
                  /\ (event' = "fetchListed") =>
                        /\ Len(posts') = Cardinality(readable)
                        /\ { posts'[k].path : k \in 1..Len(posts') } = readable
                        /\ \A k \in 1..Len(posts') :
                              /\ posts'[k].sha = hostPosts[posts'[k].path].sha
                              /\ posts'[k].date = hostPosts[posts'[k].path].date
                        /\ \A j, k \in 1..Len(posts') :
                              j < k => Key(posts'[j].date) >= Key(posts'[k].date)
                  /\ (event' = "fetchFailed") =>
                        /\ posts' = posts
                        /\ (auth /\ currentView = "dashboard" /\ fetches[i] = dashId)
                              => dashError'
                  /\ (event' = "fetchUnauthorized") => ~auth'
      ]_vars

\* a listing of two files of which one does not parse: the list holds the
\* other one, although its date is invalid
OneFileOmitted ==
    /\ event = "fetchListed"
    /\ Len(posts) = 1
    /\ posts[1].date = InvalidDate
    /\ \E p \in Paths : hostPosts[p].sha # 0 /\ ~hostPosts[p].parses

\* C23: after any sequence of deletes, also with several host calls in
\* flight that complete in any order, the list holds no post whose delete
\* succeeded and every post whose delete failed or was never requested:
\* once a delete has settled, the posts listed are the files the host
\* holds that getPosts could read.
ListFollowsDeletes ==
    (event \in {"deleteDone", "deleteFailed"}) =>
        { posts[k].path : k \in 1..Len(posts) } =
            { p \in Paths : hostPosts[p].sha # 0 /\ hostPosts[p].parses }

UnauthorizedShowsBadCredentials ==
    (event = "fetchUnauthorized") =>
        (~auth /\ posts = <<>> /\ loginError = BadCredentials)

\* C26: when an image upload succeeds, the content becomes the content of
\* that moment with the image's markdown inserted at the cursor position
\* recorded at the paste; nothing typed during the upload is lost.
UploadInsertsIntoCurrentContent ==
    [][ \A i \in 1..Len(hostUploads) :
           (event' = "uploadDone" /\ hostUploads' = RemoveAt(hostUploads, i)) =>
               content' = InsertAt(content, hostUploads[i].cursorPosition,
                                   Markdown(hostUploads[i].alt, hostUploads[i].fullPath))
      ]_vars

\* C27: whenever nobody is logged in (auth is null) the post list is
\* empty, also when a request started before the logout settles after it.
LoggedOutListEmpty == ~auth => posts = <<>>

====
